---- MODULE Spec2Model ----
(***************************************************************************)
(* The agentic extraction pipeline of doylet/PDF-OCR                       *)
(* (backend/app/agents/orchestrator.py and the agents it drives) as a      *)
(* state machine over the DocumentGraph of one job.                        *)
(*                                                                         *)
(* Two families of behaviours are described:                               *)
(*   Spec      one ExpertOrchestrator.run() on a freshly constructed       *)
(*             orchestrator, with the PDF reader, the word extractor and   *)
(*             camelot as nondeterministic collaborators;                  *)
(*   SpecUnit  single methods of the orchestrator called on a hand-built   *)
(*             DocumentGraph, the way backend/test_agentic_pipeline.py     *)
(*             builds its graphs.                                          *)
(*                                                                         *)
(* Numbers: confidences and bbox coordinates are hundredths (0.4 is 40,    *)
(* the unit page is 0..100).                                               *)
(*                                                                         *)
(* Python run-time errors are modelled as what they are.  Three of them    *)
(* shape every behaviour of the pipeline:                                  *)
(*   - BBox (document_graph.py:65-71) has the fields x, y, width, height;  *)
(*     reading bbox.w or bbox.h raises AttributeError                      *)
(*     (layout_agent.py:164, orchestrator.py:240);                         *)
(*   - orchestrator.py never imports BBox (lines 18-21), so line 469       *)
(*     raises NameError;                                                   *)
(*   - orchestrator.py:399 calls the instance method                       *)
(*     ValidatorAgent.validate_extraction on the class with two            *)
(*     arguments, which raises TypeError.                                  *)
(***************************************************************************)
EXTENDS Integers, Sequences, FiniteSets, TLC

VARIABLES
    pc,           \* position in run(), or in the method under test
    status,       \* DocumentGraph.status
    outcome,      \* DocumentGraph.outcome
    pages,        \* DocumentGraph.pages
    tokens,       \* DocumentGraph.tokens (each token by its page)
    regions,      \* DocumentGraph.regions
    extractions,  \* DocumentGraph.extractions
    decisions,    \* DocumentGraph.decisions
    trace,        \* DocumentGraph.trace
    dispatched,   \* the regions handed to _dispatch_to_specialist, in call order
    calls,        \* the calls made to pdfplumber and camelot, in call order
    approved,     \* StructureGate.filter_regions: the list it returned
    input,        \* a method called on its own: its argument
    result,       \* a method called on its own: what it returned
    store,        \* the database rows the services read and write
    workers,      \* the service calls in progress, each with its locals
    page_num,     \* run(): the page loop's variable
    failed,       \* _handle_retries: the snapshot of failed extractions (indices)
    idx,          \* _handle_retries: position in failed; for a validator called
                  \* on its own, 1 when it has an llm_service (use_llm)
    decision,     \* _handle_retries: the AgentDecision of the current iteration
    raised        \* the exception that left the step, "none" if none

callVars == <<input, result, store, workers>>

vars == <<pc, status, outcome, pages, tokens, regions, extractions, decisions,
          trace, dispatched, calls, approved, callVars, page_num, failed, idx,
          decision, raised>>

(***************************************************************************)
(* Bounds of the model.                                                    *)
(***************************************************************************)
MaxPages == 2
MaxWords == 11
MaxTables == 2
MaxExt == 2
MaxOutcomeExt == 3
MaxRegions == 2

(***************************************************************************)
(* Program constants.                                                      *)
(***************************************************************************)
MIN_TEXT_LENGTH == 20
MIN_NATIVE_TOKENS == 10
MIN_CAMELOT_ROWS == 2
CAMELOT_CONFIDENCE == 85
LOW_CONFIDENCE == 50
PAD_FRACTION == 10
OCR_DPI == 300

(***************************************************************************)
(* Enumerations of document_graph.py, by their values.                     *)
(***************************************************************************)
ValidationStatus == {"pass", "fail", "warning", "pending"}

JobOutcome == {"success", "partial_success", "no_match", "failed"}

RegionType == {"table", "key_value", "list", "totals", "heading", "footer", "unknown"}

None == "None"

(***************************************************************************)
(* Identifiers.  An id is its text without trailing "_retry" suffixes (a   *)
(* tuple of its parts) and the number of "_retry" suffixes that follow it. *)
(***************************************************************************)
Id(base) == [base |-> base, retries |-> 0]

NoId == Id(<<"-">>)

EndsWithRetry(id) == id.retries > 0

(***************************************************************************)
(* Text.  A message is the sequence of its characters.                     *)
(***************************************************************************)
UpperCase ==
    {"A", "B", "C", "D", "E", "F", "G", "H", "I", "J", "K", "L", "M",
     "N", "O", "P", "Q", "R", "S", "T", "U", "V", "W", "X", "Y", "Z"}

\* str.lower() on one character (ASCII letters)
LowerChar(c) ==
    IF c \notin UpperCase THEN c ELSE
    CASE c = "A" -> "a" [] c = "B" -> "b" [] c = "C" -> "c" [] c = "D" -> "d"
      [] c = "E" -> "e" [] c = "F" -> "f" [] c = "G" -> "g" [] c = "H" -> "h"
      [] c = "I" -> "i" [] c = "J" -> "j" [] c = "K" -> "k" [] c = "L" -> "l"
      [] c = "M" -> "m" [] c = "N" -> "n" [] c = "O" -> "o" [] c = "P" -> "p"
      [] c = "Q" -> "q" [] c = "R" -> "r" [] c = "S" -> "s" [] c = "T" -> "t"
      [] c = "U" -> "u" [] c = "V" -> "v" [] c = "W" -> "w" [] c = "X" -> "x"
      [] c = "Y" -> "y" [] c = "Z" -> "z"
      [] OTHER -> c

Lower(s) == [i \in DOMAIN s |-> LowerChar(s[i])]

Contains(pat, s) ==
    \E t \in {s} :
        \E i \in 1..(Len(t) - Len(pat) + 1) : SubSeq(t, i, i + Len(pat) - 1) = pat

MissingWord == <<"m", "i", "s", "s", "i", "n", "g">>

(***************************************************************************)
(* Log entries.                                                            *)
(***************************************************************************)
Decision(agent, what, page, eid) ==
    [agent |-> agent, decision |-> what, page |-> page, extraction_id |-> eid]

TraceEntry(step, st) == [step |-> step, status |-> st]

\* a call of an external library for a page: it returned, or it raised
Call(callee, page, exc) == [callee |-> callee, page |-> page, raised |-> exc]

(***************************************************************************)
(* DocumentGraph records.                                                  *)
(***************************************************************************)
BBox(x, y, width, height) == [x |-> x, y |-> y, width |-> width, height |-> height]

Region(rid, rtype, bbox, page) ==
    [region_id |-> rid, region_type |-> rtype, bbox |-> bbox, page |-> page,
     token_ids |-> <<>>]

Extraction(eid, rid, conf, st, errs, by) ==
    [extraction_id |-> eid, region_id |-> rid, confidence |-> conf,
     validation_status |-> st, validation_errors |-> errs, extracted_by |-> by]

Graph(regs, exts, decs, tr) ==
    [regions |-> regs, extractions |-> exts, decisions |-> decs, trace |-> tr]

EmptyDict == [k \in {} |-> 0]

NoDecision == [action |-> None, confidence |-> 0, next_params |-> EmptyDict]

(***************************************************************************)
(* A variant of _decide_retry_strategy whose first test is                 *)
(* confidence <= 0.5.                                                      *)
(***************************************************************************)
DecideRetryStrategyInclusive(extraction) ==
    IF extraction.confidence <= LOW_CONFIDENCE
    THEN [action |-> "retry_pad", confidence |-> 70,
          next_params |-> [pad_fraction |-> PAD_FRACTION]]
    ELSE IF \E k \in DOMAIN extraction.validation_errors :
                Contains(MissingWord, Lower(extraction.validation_errors[k]))
         THEN [action |-> "retry_ocr", confidence |-> 80,
               next_params |-> [dpi |-> OCR_DPI]]
         ELSE [action |-> "escalate", confidence |-> 90,
               next_params |-> EmptyDict]

(***************************************************************************)
(* ExpertOrchestrator._decide_retry_strategy                               *)
(***************************************************************************)
DecideRetryStrategy(extraction) ==
    IF extraction.confidence < LOW_CONFIDENCE
    THEN [action |-> "retry_pad", confidence |-> 70,
          next_params |-> [pad_fraction |-> PAD_FRACTION]]
    ELSE IF \E k \in DOMAIN extraction.validation_errors :
                Contains(MissingWord, Lower(extraction.validation_errors[k]))
         THEN [action |-> "retry_ocr", confidence |-> 80,
               next_params |-> [dpi |-> OCR_DPI]]
         ELSE [action |-> "escalate", confidence |-> 90,
               next_params |-> EmptyDict]

(***************************************************************************)
(* ExpertOrchestrator._retry_with_padding.  The region is looked up; when  *)
(* it is missing the method returns.  Otherwise the padding fraction is    *)
(* read from params and logged, and then line 469 evaluates the name BBox, *)
(* which the module never imports: NameError leaves the method before the  *)
(* extraction is marked and before any region is added.                    *)
(***************************************************************************)
RetryWithPadding(g, i, params) ==
    LET extraction == g.extractions[i]
        found == {k \in DOMAIN g.regions :
                     g.regions[k].region_id = extraction.region_id}
    IN  IF found = {}
        THEN [g |-> g, raised |-> "none"]
        ELSE [g |-> g, raised |-> "NameError"]

(***************************************************************************)
(* A variant of the loop body without the "_retry" suffix test of lines    *)
(* 432-437: every failed extraction gets a strategy.                       *)
(***************************************************************************)
RetryIterationNoGuard(g, i) ==
    LET extraction == g.extractions[i]
        d == DecideRetryStrategy(extraction)
        g1 == [g EXCEPT !.decisions =
                  Append(@, Decision("orchestrator", d.action, -1,
                                     extraction.extraction_id))]
    IN  IF d.action = "retry_pad"
        THEN LET r == RetryWithPadding(g1, i, d.next_params)
             IN  [g |-> r.g, decision |-> d, raised |-> r.raised]
        ELSE [g |-> g1, decision |-> d, raised |-> "none"]

(***************************************************************************)
(* ExpertOrchestrator._handle_retries, one iteration of the loop over the  *)
(* failed extractions (lines 430-456); i is the extraction's index.        *)
(* _retry_with_ocr and _retry_with_higher_dpi only log.                    *)
(***************************************************************************)
RetryIteration(g, i) ==
    LET extraction == g.extractions[i]
    IN  IF EndsWithRetry(extraction.extraction_id)
        THEN [g |-> [g EXCEPT !.extractions[i].validation_status = "warning"],
              decision |-> NoDecision, raised |-> "none"]
        ELSE LET d == DecideRetryStrategy(extraction)
                 g1 == [g EXCEPT !.decisions =
                           Append(@, Decision("orchestrator", d.action, -1,
                                              extraction.extraction_id))]
             IN  IF d.action = "retry_pad"
                 THEN LET r == RetryWithPadding(g1, i, d.next_params)
                      IN  [g |-> r.g, decision |-> d, raised |-> r.raised]
                 ELSE [g |-> g1, decision |-> d, raised |-> "none"]

(***************************************************************************)
(* _handle_retries, lines 421-422: the failed extractions, in graph order. *)
(***************************************************************************)
RECURSIVE FailedFrom(_, _)
FailedFrom(exts, k) ==
    IF k > Len(exts) THEN <<>>
    ELSE IF exts[k].validation_status = "fail"
         THEN <<k>> \o FailedFrom(exts, k + 1)
         ELSE FailedFrom(exts, k + 1)

FailedOf(exts) == FailedFrom(exts, 1)

(***************************************************************************)
(* _handle_retries as a whole: the iterations in order, until one raises.  *)
(***************************************************************************)
RECURSIVE HandleRetriesFrom(_, _, _)
HandleRetriesFrom(g, fl, k) ==
    IF k > Len(fl) THEN [g |-> g, raised |-> "none"]
    ELSE LET r == RetryIteration(g, fl[k])
         IN  IF r.raised # "none" THEN [g |-> r.g, raised |-> r.raised]
             ELSE HandleRetriesFrom(r.g, fl, k + 1)

(***************************************************************************)
(* A variant of _determine_outcome that looks for a failed extraction      *)
(* before it looks for a passed one.                                       *)
(***************************************************************************)
DetermineOutcomeFailedFirst(regs, exts) ==
    LET passed == {k \in DOMAIN exts : exts[k].validation_status = "pass"}
        failedx == {k \in DOMAIN exts : exts[k].validation_status = "fail"}
    IN  IF Len(regs) = 0 THEN "no_match"
        ELSE IF Cardinality(failedx) > 0 THEN "partial_success"
        ELSE IF Cardinality(passed) = 0 THEN "no_match"
        ELSE "success"

(***************************************************************************)
(* ExpertOrchestrator._determine_outcome: the outcome it assigns.          *)
(***************************************************************************)
DetermineOutcomeOf(regs, exts) ==
    LET passed == {k \in DOMAIN exts : exts[k].validation_status = "pass"}
        failedx == {k \in DOMAIN exts : exts[k].validation_status = "fail"}
    IN  IF Len(regs) = 0 THEN "no_match"
        ELSE IF Cardinality(passed) = 0 THEN "no_match"
        ELSE IF Cardinality(failedx) > 0 THEN "partial_success"
        ELSE "success"

(***************************************************************************)
(* The collaborators' answers.                                             *)
(***************************************************************************)
TextLengths == {0, MIN_TEXT_LENGTH - 1, MIN_TEXT_LENGTH}

\* pdfplumber: the words of a page, or an exception
WordResults ==
    {[raised |-> TRUE, count |-> 0]} \cup
    {[raised |-> FALSE, count |-> n] : n \in 0..MaxWords}

\* camelot.read_pdf: the tables of a page (each by its number of non-empty
\* rows), or an exception
RowCounts == {MIN_CAMELOT_ROWS - 1, MIN_CAMELOT_ROWS}

CamelotResults ==
    {[raised |-> TRUE, tables |-> <<>>]} \cup
    {[raised |-> FALSE, tables |-> t] :
        t \in UNION {[1..n -> RowCounts] : n \in 0..MaxTables}}

(***************************************************************************)
(* A variant of extract_tokens_from_pdf that hands back tokens although    *)
(* the extractor raised.                                                   *)
(***************************************************************************)
ExtractTokensDespiteFailure(words, p) ==
    IF words.raised THEN [k \in 1..MIN_NATIVE_TOKENS |-> [page |-> p, word |-> k]]
    ELSE IF words.count < MIN_NATIVE_TOKENS THEN <<>>
    ELSE [k \in 1..words.count |-> [page |-> p, word |-> k]]

(***************************************************************************)
(* LayoutAgent.extract_tokens_from_pdf: the tokens of the page, none when  *)
(* the extractor raises or finds fewer than 10 words.                      *)
(***************************************************************************)
ExtractTokens(words, p) ==
    IF words.raised THEN <<>>
    ELSE IF words.count < MIN_NATIVE_TOKENS THEN <<>>
    ELSE [k \in 1..words.count |-> [page |-> p, word |-> k]]

(***************************************************************************)
(* ExpertOrchestrator._extract_tables_with_camelot: the extractions added  *)
(* for the tables camelot found on page p, tables of fewer than 2 rows     *)
(* skipped; nothing when camelot raises.                                   *)
(***************************************************************************)
RECURSIVE CamelotFrom(_, _, _)
CamelotFrom(tables, p, k) ==
    IF k > Len(tables) THEN <<>>
    ELSE IF tables[k] < MIN_CAMELOT_ROWS THEN CamelotFrom(tables, p, k + 1)
    ELSE <<Extraction(Id(<<"camelot", p, k - 1>>),
                      Id(<<"camelot_region", p, k - 1>>),
                      CAMELOT_CONFIDENCE, "pending", <<>>, "camelot_fallback")>>
         \o CamelotFrom(tables, p, k + 1)

CamelotExtractions(cam, p) ==
    IF cam.raised THEN <<>> ELSE CamelotFrom(cam.tables, p, 1)

RECURSIVE SelectPage(_, _)
SelectPage(regs, p) ==
    IF regs = <<>> THEN <<>>
    ELSE IF Head(regs).page = p THEN <<Head(regs)>> \o SelectPage(Tail(regs), p)
    ELSE SelectPage(Tail(regs), p)

(***************************************************************************)
(* A variant of the handler that records the error in the decision log     *)
(* only.                                                                   *)
(***************************************************************************)
FailWithoutTrace(exc, tr, dec) ==
    /\ status' = "failed"
    /\ outcome' = "FAILED"
    /\ trace' = tr
    /\ decisions' = Append(dec, Decision("orchestrator", "failed", -1, NoId))
    /\ raised' = exc
    /\ pc' = "done"

(***************************************************************************)
(* A variant of the handler that starts the trace and the decision log     *)
(* afresh.                                                                 *)
(***************************************************************************)
FailResettingLogs(exc, tr, dec) ==
    /\ status' = "failed"
    /\ outcome' = "FAILED"
    /\ trace' = <<TraceEntry("orchestration", "error")>>
    /\ decisions' = <<Decision("orchestrator", "failed", -1, NoId)>>
    /\ raised' = exc
    /\ pc' = "done"

(***************************************************************************)
(* run(), lines 83-98: the handler of any exception raised in the try      *)
(* block.  tr and dec are the trace and the decision log as the raising    *)
(* step left them.                                                         *)
(***************************************************************************)
Fail(exc, tr, dec) ==
    /\ status' = "failed"
    /\ outcome' = "FAILED"
    /\ trace' = Append(tr, TraceEntry("orchestration", "error"))
    /\ decisions' = Append(dec, Decision("orchestrator", "failed", -1, NoId))
    /\ raised' = exc
    /\ pc' = "done"

(***************************************************************************)
(* An exception leaving a step: inside run() it reaches the handler; from  *)
(* a method called on its own it reaches the caller.                       *)
(***************************************************************************)
UnitPcs == {"u_handle_retries", "u_retry_loop", "u_determine_outcome",
            "u_process_page", "u_validate", "u_filter_regions",
            "u_returned", "u_raised"}

Raise(exc, tr, dec) ==
    IF pc \in UnitPcs
    THEN /\ trace' = tr
         /\ decisions' = dec
         /\ raised' = exc
         /\ pc' = "u_raised"
         /\ UNCHANGED <<status, outcome>>
    ELSE Fail(exc, tr, dec)

(***************************************************************************)
(* Construction: ExpertOrchestrator.__init__ and the DocumentGraph         *)
(* defaults.                                                               *)
(***************************************************************************)
Init ==
    /\ pc = "idle"
    /\ status = "pending"
    /\ outcome = None
    /\ pages = <<>>
    /\ tokens = <<>>
    /\ regions = <<>>
    /\ extractions = <<>>
    /\ decisions = <<>>
    /\ trace = <<>>
    /\ dispatched = <<>>
    /\ calls = <<>>
    /\ approved = <<>>
    /\ input = <<>>
    /\ result = <<>>
    /\ store = <<>>
    /\ workers = <<>>
    /\ page_num = 0
    /\ failed = <<>>
    /\ idx = 0
    /\ decision = NoDecision
    /\ raised = "none"

\* A variant of the first step of run() that leaves the status alone.
StartWithoutRunning ==
    /\ pc = "idle"
    /\ pc' = "ingest"
    /\ UNCHANGED <<status, outcome, pages, tokens, regions, extractions,
                   decisions, trace, dispatched, calls, approved, callVars, page_num, failed, idx,
                   decision, raised>>

\* run(), line 61
Start ==
    /\ pc = "idle"
    /\ status' = "running"
    /\ pc' = "ingest"
    /\ UNCHANGED <<outcome, pages, tokens, regions, extractions, decisions,
                   trace, dispatched, calls, approved, callVars, page_num, failed, idx, decision, raised>>

PageInfo(p, len) ==
    [page_num |-> p, use_ocr |-> (len < MIN_TEXT_LENGTH), text_length |-> len]

IngestDecision(p, len) ==
    Decision("orchestrator",
             IF len < MIN_TEXT_LENGTH THEN "use_ocr" ELSE "use_pdf_text", p, NoId)

\* A variant of the page loop that stops after its first page.
AfterPageStop(p, n) == "validate"

\* the page loop of run(), line 68: where it stands after page p
AfterPage(p, n) == IF p + 1 < n THEN "process_pages" ELSE "validate"

(***************************************************************************)
(* ExpertOrchestrator._ingest_pdf.  The reader opens the file or raises;   *)
(* each page's text is read (which may raise as well) and the page and its *)
(* decision are recorded.                                                  *)
(***************************************************************************)
IngestPdf ==
    /\ pc = "ingest"
    /\ LET tr1 == Append(trace, TraceEntry("ingest_pdf", "started"))
           tr2 == Append(tr1, TraceEntry("ingest_pdf", "completed"))
       IN  \/ /\ Fail("PdfReadError", tr1, decisions)
              /\ UNCHANGED <<pages, tokens, regions, extractions, dispatched,
                             calls, approved, callVars, page_num, failed, idx, decision>>
           \/ \E n \in 0..MaxPages : \E lens \in [1..n -> TextLengths] :
                /\ pages' = pages \o [k \in 1..n |-> PageInfo(k - 1, lens[k])]
                /\ decisions' = decisions \o
                                  [k \in 1..n |-> IngestDecision(k - 1, lens[k])]
                /\ trace' = tr2
                /\ page_num' = 0
                /\ pc' = AfterPage(-1, n)
                /\ UNCHANGED <<status, outcome, tokens, regions, extractions,
                               dispatched, calls, approved, callVars, failed, idx, decision, raised>>
           \/ \E n \in 1..MaxPages : \E done \in 0..(n - 1) :
              \E lens \in [1..done -> TextLengths] :
                /\ pages' = pages \o [k \in 1..done |-> PageInfo(k - 1, lens[k])]
                /\ Fail("PageReadError", tr2,
                        decisions \o
                          [k \in 1..done |-> IngestDecision(k - 1, lens[k])])
                /\ UNCHANGED <<tokens, regions, extractions, dispatched,
                               calls, approved, callVars, page_num, failed, idx, decision>>

(***************************************************************************)
(* ExpertOrchestrator._process_page for the page the loop stands at, with  *)
(* everything it calls.                                                    *)
(*   - A page marked use_ocr is skipped (lines 191-194).                   *)
(*   - LayoutAgent.process_page: with no tokens it logs "ocr_needed" and   *)
(*     returns; with tokens it adds them to the graph and clusters them    *)
(*     into lines, where layout_agent.py:164 reads bbox.h: AttributeError. *)
(*   - Every region of the page is handed to _dispatch_to_specialist, in   *)
(*     graph order; no other component is consulted in between.  The       *)
(*     method builds its trace entry from region.bbox.w (line 240):        *)
(*     AttributeError, for a region of any type, at the first region.      *)
(*   - With no TABLE region among the page's regions, camelot is asked     *)
(*     (lines 215-217).                                                    *)
(***************************************************************************)
ProcessPageBody ==
    LET p == page_num
        tr1 == Append(trace, TraceEntry("process_page", "started"))
        after == IF pc \in UnitPcs THEN "u_returned"
                 ELSE AfterPage(p, Len(pages))
    IN  IF pages[p + 1].use_ocr
        THEN /\ trace' = tr1
             /\ page_num' = p + 1
             /\ pc' = after
             /\ UNCHANGED <<status, outcome, pages, tokens, regions,
                            extractions, decisions, dispatched, calls, approved, callVars, failed, idx,
                            decision, raised>>
        ELSE \E words \in WordResults :
               LET toks == ExtractTokens(words, p)
                   dec1 == Append(decisions,
                                  Decision("layout_agent", "ocr_needed", p, NoId))
                   page_regions == SelectPage(regions, p)
                   tr2 == Append(tr1, TraceEntry("layout_agent", "completed"))
                   wcall == Call("pdfplumber", p, words.raised)
               IN  IF toks # <<>>
                   THEN /\ tokens' = tokens \o toks
                        /\ calls' = Append(calls, wcall)
                        /\ Raise("AttributeError", tr1, decisions)
                        /\ UNCHANGED <<pages, regions, extractions, dispatched,
                                       approved, callVars, page_num, failed, idx,
                                       decision>>
                   ELSE IF page_regions # <<>>
                   THEN /\ dispatched' =
                               Append(dispatched, Head(page_regions).region_id)
                        /\ calls' = Append(calls, wcall)
                        /\ Raise("AttributeError", tr2, dec1)
                        /\ UNCHANGED <<pages, tokens, regions, extractions,
                                       approved, callVars, page_num, failed, idx,
                                       decision>>
                   ELSE \E cam \in CamelotResults :
                        /\ extractions' =
                               extractions \o CamelotExtractions(cam, p)
                        /\ decisions' = dec1
                        /\ trace' = tr2
                        /\ page_num' = p + 1
                        /\ pc' = after
                        /\ calls' = calls \o
                               <<wcall, Call("camelot", p, cam.raised)>>
                        /\ UNCHANGED <<status, outcome, pages, tokens,
                                       regions, dispatched, approved, callVars, failed,
                                       idx, decision, raised>>

\* run(), lines 68-69: the page loop
ProcessPage ==
    /\ pc = "process_pages"
    /\ ProcessPageBody

(***************************************************************************)
(* ExpertOrchestrator._validate_extractions.  The loop body calls          *)
(* ValidatorAgent.validate_extraction(self.graph, extraction) on the       *)
(* class; the method is an instance method (validator_agent.py:55), so     *)
(* the call lacks one argument and raises TypeError at the first           *)
(* extraction, before any status is set.                                   *)
(***************************************************************************)
ValidateExtractions ==
    /\ pc = "validate"
    /\ IF extractions = <<>>
       THEN /\ pc' = "handle_retries"
            /\ UNCHANGED <<status, outcome, decisions, trace, raised>>
       ELSE Fail("TypeError", trace, decisions)
    /\ UNCHANGED <<pages, tokens, regions, extractions, dispatched, calls,
                   approved, callVars, page_num, failed, idx,
                   decision>>

(***************************************************************************)
(* run(), line 75: _handle_retries as one step of the job.                 *)
(***************************************************************************)
HandleRetries ==
    /\ pc = "handle_retries"
    /\ LET r == HandleRetriesFrom(Graph(regions, extractions, decisions, trace),
                                  FailedOf(extractions), 1)
       IN  /\ regions' = r.g.regions
           /\ extractions' = r.g.extractions
           /\ IF r.raised # "none"
              THEN Fail(r.raised, r.g.trace, r.g.decisions)
              ELSE /\ decisions' = r.g.decisions
                   /\ trace' = r.g.trace
                   /\ pc' = "determine_outcome"
                   /\ UNCHANGED <<status, outcome, raised>>
    /\ UNCHANGED <<pages, tokens, dispatched, calls, approved, callVars, page_num, failed, idx, decision>>

(***************************************************************************)
(* ExpertOrchestrator._determine_outcome: the outcome and its trace entry. *)
(***************************************************************************)
SetOutcome ==
    /\ outcome' = DetermineOutcomeOf(regions, extractions)
    /\ trace' = Append(trace, TraceEntry("determine_outcome",
                                         DetermineOutcomeOf(regions, extractions)))

\* run(), line 78
DetermineOutcome ==
    /\ pc = "determine_outcome"
    /\ SetOutcome
    /\ pc' = "complete"
    /\ UNCHANGED <<status, pages, tokens, regions, extractions, decisions,
                   dispatched, calls, approved, callVars, page_num, failed, idx, decision, raised>>

\* run(), lines 80-81 and the return of line 100
Complete ==
    /\ pc = "complete"
    /\ status' = "completed"
    /\ pc' = "done"
    /\ UNCHANGED <<outcome, pages, tokens, regions, extractions, decisions,
                   trace, dispatched, calls, approved, callVars, page_num, failed, idx, decision, raised>>

Next ==
    \/ Start
    \/ IngestPdf
    \/ ProcessPage
    \/ ValidateExtractions
    \/ HandleRetries
    \/ DetermineOutcome
    \/ Complete

Spec == Init /\ [][Next]_vars

\* run() is one sequential call: a step that can be taken is taken.
FairSpec == Spec /\ WF_vars(Next)

(***************************************************************************)
(* Methods of the orchestrator called on a hand-built graph.               *)
(*                                                                         *)
(* The graph for _handle_retries holds one TABLE region and up to MaxExt   *)
(* extractions, each of the region or of a region the graph does not hold  *)
(* (as a camelot extraction is), with or without an id ending in "_retry"; *)
(* a failed extraction carries any of the error lists and either          *)
(* confidence, a passed one is of the region and carries no error.         *)
(* The graph for _process_page holds one page and at most one region on   *)
(* it.  The graph for _determine_outcome holds up to MaxRegions regions    *)
(* and up to MaxOutcomeExt extractions of every validation status.         *)
(***************************************************************************)
ErrMissingId == <<"M", "i", "s", "s", "i", "n", "g", " ", "i", "d">>
ErrMISSING == <<"M", "I", "S", "S", "I", "N", "G">>
ErrTooFew == <<"T", "o", "o", " ", "f", "e", "w">>
ErrMissin == <<"m", "i", "s", "s", "i", "n">>

ErrorLists == {<<>>, <<ErrMissingId>>, <<ErrTooFew, ErrMISSING>>, <<ErrMissin>>}

Confidences == {LOW_CONFIDENCE - 10, LOW_CONFIDENCE}

BBoxPool == {BBox(5, 20, 30, 10), BBox(75, 85, 25, 15)}

TableRegionId == Id(<<"table", 0, 0>>)

UnitRegionIds == {TableRegionId, Id(<<"camelot_region", 0, 0>>)}

UnitExtractionsAt(k) ==
    {Extraction([base |-> <<"ext", k>>, retries |-> r], rid, c, "fail", errs,
                "table_agent") :
        r \in {0, 1}, rid \in UnitRegionIds, c \in Confidences,
        errs \in ErrorLists}
    \cup
    {Extraction([base |-> <<"ext", k>>, retries |-> r], TableRegionId, 80,
                "pass", <<>>, "table_agent") : r \in {0, 1}}

RECURSIVE UnitExtractionSeqs(_)
UnitExtractionSeqs(n) ==
    IF n = 0 THEN {<<>>}
    ELSE {Append(sq, e) : sq \in UnitExtractionSeqs(n - 1),
                          e \in UnitExtractionsAt(n)}

OutcomeExtraction(k, st) ==
    Extraction(Id(<<"ext", k>>), Id(<<"region", k>>), 80, st, <<>>, "table_agent")

InitGraphDefaults ==
    /\ status = "pending"
    /\ outcome = None
    /\ tokens = <<>>
    /\ decisions = <<>>
    /\ trace = <<>>
    /\ dispatched = <<>>
    /\ calls = <<>>
    /\ approved = <<>>
    /\ input = <<>>
    /\ result = <<>>
    /\ store = <<>>
    /\ workers = <<>>
    /\ page_num = 0
    /\ failed = <<>>
    /\ idx = 0
    /\ decision = NoDecision
    /\ raised = "none"

InitUnit ==
    /\ InitGraphDefaults
    /\ \/ /\ pc = "u_handle_retries"
          /\ pages = <<>>
          /\ regions = <<Region(TableRegionId, "table", BBox(5, 20, 30, 10), 0)>>
          /\ \E n \in 0..MaxExt : extractions \in UnitExtractionSeqs(n)
       \/ /\ pc = "u_process_page"
          /\ \E len \in TextLengths : pages = <<PageInfo(0, len)>>
          /\ \/ regions = <<>>
             \/ \E t \in {"table", "key_value", "heading"} : \E b \in BBoxPool :
                   regions = <<Region(TableRegionId, t, b, 0)>>
          /\ extractions = <<>>
       \/ /\ pc = "u_determine_outcome"
          /\ pages = <<>>
          /\ \E n \in 0..MaxRegions :
                regions = [k \in 1..n |->
                              Region(Id(<<"region", k>>), "table",
                                     BBox(10, 10, 10, 10), 0)]
          /\ \E n \in 0..MaxOutcomeExt :
             \E sts \in [1..n -> ValidationStatus] :
                extractions = [k \in 1..n |-> OutcomeExtraction(k, sts[k])]

\* _handle_retries, lines 421-426: the snapshot of the failed extractions
UBeginRetries ==
    /\ pc = "u_handle_retries"
    /\ failed' = FailedOf(extractions)
    /\ idx' = 1
    /\ pc' = IF FailedOf(extractions) = <<>> THEN "u_returned" ELSE "u_retry_loop"
    /\ UNCHANGED <<status, outcome, pages, tokens, regions, extractions,
                   decisions, trace, dispatched, calls, approved, callVars, page_num, decision, raised>>

\* _handle_retries, lines 430-456: one iteration; an exception leaves the method
URetryStep ==
    /\ pc = "u_retry_loop"
    /\ LET r == RetryIteration(Graph(regions, extractions, decisions, trace),
                               failed[idx])
       IN  /\ regions' = r.g.regions
           /\ extractions' = r.g.extractions
           /\ decisions' = r.g.decisions
           /\ trace' = r.g.trace
           /\ decision' = r.decision
           /\ raised' = r.raised
           /\ idx' = idx + 1
           /\ pc' = IF r.raised # "none" THEN "u_raised"
                    ELSE IF idx + 1 > Len(failed) THEN "u_returned"
                    ELSE "u_retry_loop"
    /\ UNCHANGED <<status, outcome, pages, tokens, dispatched, calls, approved, callVars,
                   page_num, failed>>

\* _process_page called on the graph, for its page 0
UProcessPage ==
    /\ pc = "u_process_page"
    /\ ProcessPageBody

\* _determine_outcome called on the graph
UDetermineOutcome ==
    /\ pc = "u_determine_outcome"
    /\ SetOutcome
    /\ pc' = "u_returned"
    /\ UNCHANGED <<status, pages, tokens, regions, extractions, decisions,
                   dispatched, calls, approved, callVars, page_num, failed, idx, decision, raised>>

NextUnit ==
    \/ UBeginRetries
    \/ URetryStep
    \/ UProcessPage
    \/ UDetermineOutcome

SpecUnit == InitUnit /\ [][NextUnit]_vars

\* each method is one sequential call
FairSpecUnit == SpecUnit /\ WF_vars(NextUnit)

(***************************************************************************)
(* ValidatorAgent (validator_agent.py).  A cell, a header and a key are    *)
(* texts (sequences of characters); an amount is a number of hundredths;   *)
(* a rule confidence is a number of hundredths, products cut to two        *)
(* decimals; an error or a warning is the fixed part of its message.       *)
(***************************************************************************)
TOTAL_TOLERANCE_PERCENT == 1
MIN_TABLE_ROWS == 1
MAX_TABLE_ROWS == 10000
WARNING_CONFIDENCE_CAP == 90

Times(conf, percent) == (conf * percent) \div 100

Space == <<" ">>

RECURSIVE Join(_)
Join(row) ==
    IF row = <<>> THEN <<>>
    ELSE IF Len(row) = 1 THEN row[1]
    ELSE row[1] \o Space \o Join(Tail(row))

\* _validate_table, line 195: total_keywords
TotalKeywords ==
    {<<"t", "o", "t", "a", "l">>, <<"s", "u", "m">>,
     <<"s", "u", "b", "t", "o", "t", "a", "l">>,
     <<"g", "r", "a", "n", "d", " ", "t", "o", "t", "a", "l">>}

\* re.sub(r'[$...,\s]', '', text): the currency signs, commas and blanks go
StrippedChars == {"$", ",", " "}

NotStripped(c) == c \notin StrippedChars

Cleaned(text) == SelectSeq(text, NotStripped)

DigitChars == <<"0", "1", "2", "3", "4", "5", "6", "7", "8", "9">>

IsDigit(c) == \E i \in DOMAIN DigitChars : DigitChars[i] = c

DigitValue(c) == (CHOOSE i \in DOMAIN DigitChars : DigitChars[i] = c) - 1

Unsigned(text) ==
    IF text # <<>> /\ text[1] \in {"-", "+"} THEN Tail(text) ELSE text

\* what Decimal(...) and float(...) accept among the texts of the model:
\* an optional sign, digits, at most one point
ParsesAsNumber(text) ==
    LET body == Unsigned(Cleaned(text))
    IN  /\ \E i \in DOMAIN body : IsDigit(body[i])
        /\ \A i \in DOMAIN body : IsDigit(body[i]) \/ body[i] = "."
        /\ Cardinality({i \in DOMAIN body : body[i] = "."}) <= 1

RECURSIVE DigitsValue(_)
DigitsValue(ds) ==
    IF ds = <<>> THEN 0
    ELSE 10 * DigitsValue(SubSeq(ds, 1, Len(ds) - 1)) + DigitValue(ds[Len(ds)])

\* Decimal(cleaned), in hundredths (texts of at most two decimals)
DecimalOf(text) ==
    LET c == Cleaned(text)
        body == Unsigned(c)
        dots == {i \in DOMAIN body : body[i] = "."}
        dot == IF dots = {} THEN Len(body) + 1 ELSE CHOOSE i \in dots : TRUE
        whole == SubSeq(body, 1, dot - 1)
        frac == SubSeq(body, dot + 1, Len(body))
        frac2 == SubSeq(frac \o <<"0", "0">>, 1, 2)
        magnitude == 100 * DigitsValue(whole) + DigitsValue(frac2)
    IN  IF c # <<>> /\ c[1] = "-" THEN 0 - magnitude ELSE magnitude

Abs(n) == IF n < 0 THEN 0 - n ELSE n

Max(a, b) == IF a > b THEN a ELSE b

Min(a, b) == IF a < b THEN a ELSE b

RECURSIVE Sum(_)
Sum(ns) == IF ns = <<>> THEN 0 ELSE Head(ns) + Sum(Tail(ns))

\* the rows that have a cell in column col, that cell
RECURSIVE ColumnValues(_, _)
ColumnValues(rws, col) ==
    IF rws = <<>> THEN <<>>
    ELSE IF col <= Len(Head(rws))
         THEN <<Head(rws)[col]>> \o ColumnValues(Tail(rws), col)
         ELSE ColumnValues(Tail(rws), col)

RECURSIVE NumericValues(_)
NumericValues(vals) ==
    IF vals = <<>> THEN <<>>
    ELSE IF ParsesAsNumber(Head(vals))
         THEN <<DecimalOf(Head(vals))>> \o NumericValues(Tail(vals))
         ELSE NumericValues(Tail(vals))

\* a tolerance test that fails a difference of exactly the tolerance
ReachesTolerance(diff, expected_dec) ==
    100 * diff >= TOTAL_TOLERANCE_PERCENT * Abs(expected_dec)

\* diff > tolerance, tolerance = abs(expected_dec * Decimal("0.01"))
ExceedsTolerance(diff, expected_dec) ==
    100 * diff > TOTAL_TOLERANCE_PERCENT * Abs(expected_dec)

(***************************************************************************)
(* ValidatorAgent._validate_sums.  expected_total is the sequence of the   *)
(* dictionary's items, each a column name and the expected amount.         *)
(***************************************************************************)
RECURSIVE SumErrors(_, _, _)
SumErrors(rws, expected_total, k) ==
    IF k > Len(expected_total) THEN <<>>
    ELSE LET col_name == expected_total[k][1]
             expected_dec == expected_total[k][2]
             headers == rws[1]
             found == {i \in DOMAIN headers : headers[i] = col_name}
             col_idx == CHOOSE i \in found : \A j \in found : i <= j
             actual_sum == Sum(NumericValues(ColumnValues(Tail(rws), col_idx)))
             diff == Abs(actual_sum - expected_dec)
         IN  (IF found = {} THEN <<"Column not found in headers">>
              ELSE IF ExceedsTolerance(diff, expected_dec)
                   THEN <<"Column sum mismatch">>
                   ELSE <<>>)
             \o SumErrors(rws, expected_total, k + 1)

ValidateSums(rws, expected_total) ==
    IF Len(rws) < 2 THEN <<>> ELSE SumErrors(rws, expected_total, 1)

Repeat(msg, n) == [i \in 1..n |-> msg]

RECURSIVE TimesEach(_, _, _)
TimesEach(conf, percent, n) ==
    IF n = 0 THEN conf ELSE TimesEach(Times(conf, percent), percent, n - 1)

RuleResult(errs, warns, conf) ==
    [errors |-> errs, warnings |-> warns, confidence |-> conf]

\* the keyword test of Check 2 without .lower()
HasTotalKeywordAsWritten(row) ==
    \E keyword \in TotalKeywords : Contains(keyword, Join(row))

HasTotalKeyword(row) ==
    \E row_text \in {Lower(Join(row))} :
        \E keyword \in TotalKeywords : Contains(keyword, row_text)

\* Check 4: the values of a mostly numeric column that are not numeric
NonNumericIn(rws, col) ==
    LET column_values == ColumnValues(Tail(rws), col)
        numeric == {i \in DOMAIN column_values :
                       ParsesAsNumber(column_values[i])}
    IN  IF 10 * Cardinality(numeric) > 8 * Len(column_values)
        THEN Len(column_values) - Cardinality(numeric)
        ELSE 0

RECURSIVE NonNumericCount(_, _)
NonNumericCount(rws, col) ==
    IF col = 0 THEN 0
    ELSE NonNumericCount(rws, col - 1) + NonNumericIn(rws, col)

(***************************************************************************)
(* ValidatorAgent._validate_table: the five checks, in order.  data.keys   *)
(* is the set of keys of the extraction's data dictionary.                 *)
(***************************************************************************)
ValidateTable(data) ==
    LET rws == data.rows
        too_few == Len(rws) < MIN_TABLE_ROWS
        too_many == Len(rws) > MAX_TABLE_ROWS
        keyword_rows == Cardinality({i \in DOMAIN rws : HasTotalKeyword(rws[i])})
        odd_rows == IF rws = <<>> THEN 0
                    ELSE Cardinality({i \in 2..Len(rws) :
                                         Len(rws[i]) # Len(rws[1])})
        non_numeric == IF Len(rws) > 1
                       THEN NonNumericCount(rws, Len(rws[1]))
                       ELSE 0
        sum_errors == IF "total" \in data.keys
                      THEN ValidateSums(rws, data.total)
                      ELSE <<>>
        c1 == IF too_few THEN Times(100, 50) ELSE 100
        c1b == IF too_many THEN Times(c1, 90) ELSE c1
        c2 == TimesEach(c1b, 80, keyword_rows)
        c3 == TimesEach(c2, 95, odd_rows)
        c4 == TimesEach(c3, 98, non_numeric)
        c5 == IF sum_errors # <<>> THEN Times(c4, 70) ELSE c4
    IN  RuleResult(
            (IF too_few THEN <<"Too few rows">> ELSE <<>>)
                \o Repeat("Row contains total keyword", keyword_rows)
                \o sum_errors,
            (IF too_many THEN <<"Unusually many rows">> ELSE <<>>)
                \o Repeat("Row has unexpected number of columns", odd_rows)
                \o Repeat("Non-numeric value in numeric column", non_numeric),
            c5)

\* ValidatorAgent._validate_key_value
ValidateKeyValue(data) ==
    LET empty == Cardinality({i \in DOMAIN data.pairs :
                                 data.pairs[i][1] = <<>> \/ data.pairs[i][2] = <<>>})
    IN  IF data.pairs = <<>>
        THEN RuleResult(<<"No key-value pairs extracted">>, <<>>, 0)
        ELSE RuleResult(<<>>, Repeat("Empty key or value", empty),
                        TimesEach(100, 95, empty))

\* ValidatorAgent._validate_totals
ValidateTotals(data) ==
    LET bad == Cardinality({i \in DOMAIN data.totals :
                               ~ParsesAsNumber(data.totals[i][2])})
    IN  IF data.totals = <<>>
        THEN RuleResult(<<"No totals extracted">>, <<>>, 0)
        ELSE RuleResult(Repeat("Total is not numeric", bad), <<>>,
                        TimesEach(100, 70, bad))

\* validate_extraction, lines 66-68 and 81-87: phase 1
RuleBased(data) ==
    IF "rows" \in data.keys THEN ValidateTable(data)
    ELSE IF "pairs" \in data.keys THEN ValidateKeyValue(data)
    ELSE IF "totals" \in data.keys THEN ValidateTotals(data)
    ELSE RuleResult(<<>>, <<>>, 100)

LlmResult(is_valid, conf, issues) ==
    [is_valid |-> is_valid, confidence |-> conf, issues |-> issues]

FailOpen == LlmResult(TRUE, 100, <<>>)

\* a semantic validator whose failure comes back to the caller as a concern
LlmFailsClosed(llm_service) ==
    [result |-> LlmResult(FALSE, 60, <<"Semantic validation failed">>),
     raised |-> llm_service]

(***************************************************************************)
(* ValidatorAgent._llm_semantic_validation.  Without a service the answer  *)
(* is the fail-open one.  With a service, the arguments of the call are    *)
(* evaluated inside the try: extraction.region_type is read (line 149) and *)
(* Extraction has no such attribute (document_graph.py:137-157), so an     *)
(* AttributeError is raised before the service is reached, is caught at    *)
(* line 160, and the answer is the fail-open one again.                    *)
(***************************************************************************)
LlmSemanticValidation(llm_service) ==
    IF ~llm_service
    THEN [result |-> FailOpen, raised |-> FALSE]
    ELSE [result |-> FailOpen, raised |-> TRUE]

\* the result of validate_extraction when the warnings and the extraction's
\* confidence are merged with no regard for the rules of lines 101-116
ValidatedLoosely(extraction, errors, warnings, confidence) ==
    [ext |-> [extraction EXCEPT
                 !.validation_errors = errors \o warnings,
                 !.validation_status = IF errors # <<>> THEN "fail" ELSE "pass",
                 !.confidence = confidence],
     decision |-> [action |-> IF errors # <<>> THEN "retry_pad" ELSE "accept",
                   confidence |-> confidence,
                   next_params |-> EmptyDict]]

\* validate_extraction, lines 98-123
Validated(extraction, errors, warnings, confidence) ==
    IF errors # <<>>
    THEN [ext |-> [extraction EXCEPT
                      !.validation_errors = errors \o warnings,
                      !.validation_status = "fail",
                      !.confidence = Min(extraction.confidence, confidence)],
          decision |-> [action |-> "retry_pad", confidence |-> 70,
                        next_params |-> EmptyDict]]
    ELSE [ext |-> [extraction EXCEPT
                      !.validation_errors = errors \o warnings,
                      !.validation_status =
                          IF warnings # <<>> THEN "warning" ELSE "pass",
                      !.confidence =
                          IF warnings # <<>>
                          THEN Min(extraction.confidence, WARNING_CONFIDENCE_CAP)
                          ELSE extraction.confidence],
          decision |-> [action |-> "accept", confidence |-> confidence,
                        next_params |-> EmptyDict]]

PageOfRegion(graph_regions, rid) ==
    graph_regions[CHOOSE i \in DOMAIN graph_regions :
                      graph_regions[i].region_id = rid].page

(***************************************************************************)
(* ValidatorAgent.validate_extraction, called on an instance whose         *)
(* llm_service is present (use_llm) or not.  llm_calls lists the calls of  *)
(* the semantic validator.                                                 *)
(***************************************************************************)
ValidateExtraction(graph_regions, extraction, use_llm) ==
    IF ~\E i \in DOMAIN graph_regions :
           graph_regions[i].region_id = extraction.region_id
    THEN [ext |-> extraction,
          decision |-> [action |-> "reject", confidence |-> 100,
                        next_params |-> EmptyDict],
          llm_calls |-> <<>>]
    ELSE LET rules == RuleBased(extraction.data)
             consult == use_llm /\ rules.errors = <<>>
             llm == LlmSemanticValidation(use_llm)
             concerns == consult /\ ~llm.result.is_valid
             warnings == IF concerns
                         THEN rules.warnings \o llm.result.issues
                         ELSE rules.warnings
             confidence == IF concerns
                           THEN Min(rules.confidence, llm.result.confidence)
                           ELSE rules.confidence
             done == Validated(extraction, rules.errors, warnings, confidence)
         IN  [ext |-> done.ext,
              decision |-> done.decision,
              llm_calls |-> IF consult
                            THEN <<Call("llm", PageOfRegion(graph_regions, extraction.region_id),
                                         llm.raised)>>
                            ELSE <<>>]

(***************************************************************************)
(* validate_extraction called on its own, as test_agentic_pipeline.py      *)
(* builds a graph by hand: one extraction, whose region is in the graph    *)
(* or not, and a validator with or without a semantic validator.  Tables   *)
(* have the shape the extractors give them: a header and data rows         *)
(* (table_agent.py:98-100, orchestrator.py:365); an expected total comes   *)
(* with such a table.                                                      *)
(***************************************************************************)
MaxDataRows == 2

ItemText == <<"I", "t", "e", "m">>
AmountText == <<"A", "m", "o", "u", "n", "t">>
QtyText == <<"Q", "t", "y">>
FeeText == <<"F", "e", "e">>
SubtotalText == <<"S", "u", "b", "t", "o", "t", "a", "l">>
SumText == <<"S", "U", "M">>
GrandTotalText == <<"G", "r", "a", "n", "d", " ", "T", "o", "t", "a", "l">>
NotAvailableText == <<"n", "/", "a">>

Amount7500 == <<"7", "5", ".", "0", "0">>
Amount7350 == <<"7", "3", ".", "5", "0">>
Amount7650 == <<"$", "7", "6", ".", "5", "0">>
Amount7349 == <<"7", "3", ".", "4", "9">>
Amount7651 == <<"7", "6", ".", "5", "1">>
Amount6500 == <<"6", "5", ".", "0", "0">>

ExpectedAmount == 15000

HeaderRow == <<ItemText, AmountText>>

AmountTexts ==
    {Amount7500, Amount7350, Amount7650, Amount7349, Amount7651, Amount6500,
     NotAvailableText}

DataRows ==
    {<<FeeText, v>> : v \in AmountTexts}
        \cup {<<l, Amount7500>> : l \in {SubtotalText, SumText, GrandTotalText}}
        \cup {<<FeeText>>}

Tables(n) == {<<HeaderRow>> \o body : body \in [1..n -> DataRows]}

ExpectedTotals ==
    {<<<<AmountText, ExpectedAmount>>>>, <<<<QtyText, ExpectedAmount>>>>}

Data(keys, rws, total, pairs, totals) ==
    [keys |-> keys, rows |-> rws, total |-> total, pairs |-> pairs,
     totals |-> totals]

TableData ==
    {Data({"rows", "columns"}, rws, <<>>, <<>>, <<>>) :
        rws \in {<<>>, <<HeaderRow>>} \cup UNION {Tables(n) : n \in 1..MaxDataRows}}
    \cup
    {Data({"rows", "columns", "total"}, rws, total, <<>>, <<>>) :
        rws \in UNION {Tables(n) : n \in 1..MaxDataRows}, total \in ExpectedTotals}

OtherData ==
    {Data({"pairs"}, <<>>, <<>>, pairs, <<>>) :
        pairs \in {<<>>, <<<<ItemText, FeeText>>>>, <<<<ItemText, <<>>>>>>}}
    \cup
    {Data({"totals"}, <<>>, <<>>, <<>>, totals) :
        totals \in {<<>>, <<<<AmountText, Amount7500>>>>,
                    <<<<AmountText, NotAvailableText>>>>}}
    \cup {Data({}, <<>>, <<>>, <<>>, <<>>)}

ExtractionOf(data, conf) ==
    [extraction_id |-> Id(<<"extraction", 0>>), region_id |-> TableRegionId,
     confidence |-> conf, validation_status |-> "pending",
     validation_errors |-> <<>>, extracted_by |-> "table_agent", data |-> data]

InitValidator ==
    /\ pc = "u_validate"
    /\ status = "pending"
    /\ outcome = None
    /\ pages = <<>>
    /\ tokens = <<>>
    /\ decisions = <<>>
    /\ trace = <<>>
    /\ dispatched = <<>>
    /\ calls = <<>>
    /\ approved = <<>>
    /\ input = <<>>
    /\ result = <<>>
    /\ store = <<>>
    /\ workers = <<>>
    /\ page_num = 0
    /\ failed = <<>>
    /\ idx \in {0, 1}
    /\ decision = NoDecision
    /\ raised = "none"
    /\ \E conf \in {95, 40} :
          \/ /\ regions = <<Region(TableRegionId, "table", BBox(5, 20, 30, 10), 0)>>
             /\ \E data \in TableData \cup OtherData :
                   extractions = <<ExtractionOf(data, conf)>>
          \/ /\ regions = <<>>
             /\ \E data \in OtherData : extractions = <<ExtractionOf(data, conf)>>

\* decision = validator.validate_extraction(graph, extraction); idx = 1 is
\* a validator that has an llm_service
UValidateExtraction ==
    /\ pc = "u_validate"
    /\ \E done \in {ValidateExtraction(regions, extractions[1], idx = 1)} :
           /\ extractions' = <<done.ext>>
           /\ decision' = done.decision
           /\ calls' = calls \o done.llm_calls
    /\ pc' = "u_returned"
    /\ UNCHANGED <<status, outcome, pages, tokens, regions, decisions, trace,
                   dispatched, approved, callVars, page_num, failed, idx, raised>>

NextValidator == UValidateExtraction

SpecValidator == InitValidator /\ [][NextValidator]_vars

(***************************************************************************)
(* StructureGate (structure_gate.py).  A score is a number of hundredths.  *)
(***************************************************************************)
GATE_MIN_TABLE_ROWS == 3
APPROVAL_THRESHOLD == 60

Token(bbox, page, token_type) ==
    [bbox |-> bbox, page |-> page, token_type |-> token_type]

Score(raised_exc, score, fail) ==
    [raised |-> raised_exc, score |-> score, fail |-> fail]

(***************************************************************************)
(* StructureGate._cluster_tokens_into_lines.  Without tokens it returns no *)
(* line.  With tokens its first statement reads t.bbox.h of the first      *)
(* token (line 181), and BBox has the fields x, y, width and height only   *)
(* (document_graph.py:66-71): an AttributeError is raised.                 *)
(***************************************************************************)
ClusterTokensIntoLines(toks) ==
    IF toks = <<>>
    THEN [raised |-> "none", lines |-> <<>>]
    ELSE [raised |-> "AttributeError", lines |-> <<>>]

(***************************************************************************)
(* StructureGate._score_extractability.  The row count comes first; past   *)
(* it, _detect_column_alignment reads t.bbox.w (line 224) of its first     *)
(* token and raises as well.                                               *)
(***************************************************************************)
ScoreExtractability(toks, region) ==
    LET clustered == ClusterTokensIntoLines(toks)
    IN  IF clustered.raised # "none"
        THEN Score(clustered.raised, 0, None)
        ELSE IF Len(clustered.lines) < GATE_MIN_TABLE_ROWS
             THEN Score("none", 0, "insufficient_rows")
             ELSE Score("AttributeError", 0, None)

\* tokens = [graph.tokens[tid] for tid in region.token_ids
\*           if tid < len(graph.tokens)]
RECURSIVE TokensOf(_, _)
TokensOf(token_ids, toks) ==
    IF token_ids = <<>> THEN <<>>
    ELSE IF Head(token_ids) < Len(toks)
         THEN <<toks[Head(token_ids) + 1]>> \o TokensOf(Tail(token_ids), toks)
         ELSE TokensOf(Tail(token_ids), toks)

Rejected(region, reason) == [region |-> region, reason |-> reason]

GateResult(exc, appr, rej) == [raised |-> exc, approved |-> appr, rejected |-> rej]

\* filter_regions, lines 68-89: the loop over the proposed regions
RECURSIVE FilterLoop(_, _, _, _)
FilterLoop(proposed, toks, appr, rej) ==
    IF proposed = <<>> THEN GateResult("none", appr, rej)
    ELSE LET region == Head(proposed)
             region_tokens == TokensOf(region.token_ids, toks)
             scored == ScoreExtractability(region_tokens, region)
         IN  IF region.region_type = "heading"
             THEN FilterLoop(Tail(proposed), toks, Append(appr, region), rej)
             ELSE IF region_tokens = <<>>
             THEN FilterLoop(Tail(proposed), toks, appr,
                             Append(rej, Rejected(region, "no_tokens")))
             ELSE IF scored.raised # "none"
             THEN GateResult(scored.raised, appr, rej)
             ELSE IF scored.score >= APPROVAL_THRESHOLD
             THEN FilterLoop(Tail(proposed), toks, Append(appr, region), rej)
             ELSE FilterLoop(Tail(proposed), toks, appr,
                             Append(rej, Rejected(region, "low_score")))

\* filter_regions, lines 94-101: the decisions logged after the loop
RejectDecisions(rej, page) ==
    [k \in DOMAIN rej |->
        [agent |-> "structure_gate", page |-> page,
         region_id |-> rej[k].region.region_id, decision |-> "reject",
         reason |-> rej[k].reason]]

\* StructureGate.filter_regions(graph, page_num)
FilterRegions(graph_regions, toks, page) ==
    LET looped == FilterLoop(SelectPage(graph_regions, page), toks, <<>>, <<>>)
    IN  [raised |-> looped.raised,
         approved |-> looped.approved,
         decisions |-> IF looped.raised = "none"
                       THEN RejectDecisions(looped.rejected, page)
                       ELSE <<>>]

(***************************************************************************)
(* filter_regions called on its own on a hand-built graph: four tokens on  *)
(* three lines, and regions of page 0 or 1 that refer to some of them, to  *)
(* none, or to a token the graph does not have.                            *)
(***************************************************************************)
MaxGateRegions == 2

GateTokens ==
    <<Token(BBox(10, 10, 10, 5), 0, "text"),
      Token(BBox(30, 10, 10, 5), 0, "currency"),
      Token(BBox(10, 20, 10, 5), 0, "text"),
      Token(BBox(10, 30, 10, 5), 0, "text")>>

GateTokenIds == {<<>>, <<0>>, <<0, 1>>, <<0, 2, 3>>, <<9>>}

GateRegion(k, rtype, page, token_ids) ==
    [Region(Id(<<"region", k>>), rtype, BBox(5, 5, 60, 40), page)
        EXCEPT !.token_ids = token_ids]

GateRegionChoices ==
    [region_type : {"heading", "table", "key_value"}, page : {0, 1},
     token_ids : GateTokenIds]

InitGate ==
    /\ pc = "u_filter_regions"
    /\ status = "pending"
    /\ outcome = None
    /\ pages = <<>>
    /\ tokens = GateTokens
    /\ \E n \in 0..MaxGateRegions : \E c \in [1..n -> GateRegionChoices] :
          regions = [k \in 1..n |->
                        GateRegion(k, c[k].region_type, c[k].page, c[k].token_ids)]
    /\ extractions = <<>>
    /\ decisions = <<>>
    /\ trace = <<>>
    /\ dispatched = <<>>
    /\ calls = <<>>
    /\ approved = <<>>
    /\ input = <<>>
    /\ result = <<>>
    /\ store = <<>>
    /\ workers = <<>>
    /\ page_num = 0
    /\ failed = <<>>
    /\ idx = 0
    /\ decision = NoDecision
    /\ raised = "none"

\* approved = StructureGate.filter_regions(graph, page_num)
UFilterRegions ==
    /\ pc = "u_filter_regions"
    /\ LET done == FilterRegions(regions, tokens, page_num)
       IN  IF done.raised # "none"
           THEN /\ Raise(done.raised, trace, decisions)
                /\ UNCHANGED <<approved, callVars>>
           ELSE /\ approved' = done.approved
                /\ decisions' = decisions \o done.decisions
                /\ pc' = "u_returned"
                /\ UNCHANGED <<status, outcome, trace, raised, callVars>>
    /\ UNCHANGED <<pages, tokens, regions, extractions, dispatched, calls,
                   page_num, failed, idx, decision>>

NextGate == UFilterRegions

SpecGate == InitGate /\ [][NextGate]_vars

(***************************************************************************)
(* The variables of a job and of its graph, for the steps that leave them  *)
(* alone, and their values before anything has happened.                   *)
(***************************************************************************)
jobVars == <<status, outcome, pages, tokens, regions, extractions, decisions,
             trace, dispatched, calls, approved, page_num, failed, idx,
             decision, raised>>

IdleJob ==
    /\ status = "pending"
    /\ outcome = None
    /\ pages = <<>>
    /\ tokens = <<>>
    /\ regions = <<>>
    /\ extractions = <<>>
    /\ decisions = <<>>
    /\ trace = <<>>
    /\ dispatched = <<>>
    /\ calls = <<>>
    /\ approved = <<>>
    /\ page_num = 0
    /\ failed = <<>>
    /\ idx = 0
    /\ decision = NoDecision
    /\ raised = "none"

(***************************************************************************)
(* LayoutAgent.propose_table_regions (layout_agent.py).  A line is the     *)
(* sequence of its tokens, left to right; a token carries its identity     *)
(* id(t), which is its index in the graph; token_id_map is the set of the  *)
(* identities it maps (each to itself), empty when no map is passed.       *)
(***************************************************************************)
MIN_TABLE_LINES == 3

\* current_table_start = None
NoStart == -1

PageToken(tid, text, token_type, x, y) ==
    [id |-> tid, text |-> text, token_type |-> token_type,
     bbox |-> BBox(x, y, 10, 5)]

\* LayoutAgent.TABLE_STOP_CUES
TABLE_STOP_CUES ==
    {<<"t", "o", "t", "a", "l">>,
     <<"s", "u", "b", "t", "o", "t", "a", "l">>,
     <<"b", "a", "l", "a", "n", "c", "e">>,
     <<"g", "r", "a", "n", "d", " ", "t", "o", "t", "a", "l">>,
     <<"g", "i", "g", "a", "b", "y", "t", "e">>,
     <<"m", "e", "g", "a", "b", "y", "t", "e">>,
     <<"k", "i", "l", "o", "b", "y", "t", "e">>,
     <<"1", " ", "g", "i", "g", "a", "b", "y", "t", "e">>,
     <<"1", " ", "m", "e", "g", "a", "b", "y", "t", "e">>,
     <<"1", " ", "g", "b", " ", "=">>,
     <<"1", " ", "m", "b", " ", "=">>}

TextsOf(line) == [i \in DOMAIN line |-> line[i].text]

IsStopCue(line) ==
    \E line_text \in {Lower(Join(TextsOf(line)))} :
        \E cue \in TABLE_STOP_CUES : Contains(cue, line_text)

HasStructure(line) == Len(line) >= 2

HasNumbers(line) ==
    \E i \in DOMAIN line :
        line[i].token_type \in {"number", "currency", "data_volume", "date"}

RECURSIVE Flatten(_)
Flatten(table_lines) ==
    IF table_lines = <<>> THEN <<>>
    ELSE Head(table_lines) \o Flatten(Tail(table_lines))

MinOver(S) == CHOOSE m \in S : \A n \in S : m <= n

MaxOver(S) == CHOOSE m \in S : \A n \in S : m >= n

\* token_ids = [token_id_map[id(t)] for t in all_tokens if id(t) in token_id_map]
MappedIds(all_tokens, token_id_map) ==
    LET ids == [i \in DOMAIN all_tokens |-> all_tokens[i].id]
    IN  SelectSeq(ids, LAMBDA tid : tid \in token_id_map)

\* LayoutAgent._create_table_region; None when the lines hold no token
CreateTableRegion(table_lines, page, start_idx, token_id_map) ==
    LET all_tokens == Flatten(table_lines)
        at == DOMAIN all_tokens
        min_x == MinOver({all_tokens[i].bbox.x : i \in at})
        min_y == MinOver({all_tokens[i].bbox.y : i \in at})
        max_x == MaxOver({all_tokens[i].bbox.x + all_tokens[i].bbox.width : i \in at})
        max_y == MaxOver({all_tokens[i].bbox.y + all_tokens[i].bbox.height : i \in at})
    IN  IF all_tokens = <<>> THEN <<>>
        ELSE <<[region_id |-> Id(<<"table", page, start_idx>>),
                region_type |-> "table",
                bbox |-> BBox(min_x, min_y, max_x - min_x, max_y - min_y),
                page |-> page,
                detected_by |-> "layout_agent",
                confidence |-> 70,
                hints |-> [lines |-> Len(table_lines)],
                token_ids |-> IF token_id_map # {}
                              THEN MappedIds(all_tokens, token_id_map)
                              ELSE <<>>]>>

\* a flush that proposes a buffer of any length
FlushAnyLength(buf, page, start, token_id_map) ==
    IF buf # <<>> THEN CreateTableRegion(buf, page, start, token_id_map) ELSE <<>>

\* lines 287-292: the flush at a stop cue, which passes no token_id_map
FlushAtStopCue(buf, page, start, token_id_map) ==
    IF Len(buf) >= MIN_TABLE_LINES
    THEN CreateTableRegion(buf, page, start, {})
    ELSE <<>>

\* lines 299-304 and 310-316: the flush at a line that is no table line,
\* and at the end of the page
Flush(buf, page, start, token_id_map) ==
    IF Len(buf) >= MIN_TABLE_LINES
    THEN CreateTableRegion(buf, page, start, token_id_map)
    ELSE <<>>

\* propose_table_regions, lines 273-316: the loop from line idx (counted
\* from 0) on, then the flush at the end of the page
RECURSIVE ProposeFrom(_, _, _, _, _, _, _)
ProposeFrom(lines, idx0, page, token_id_map, found, start, buf) ==
    IF idx0 >= Len(lines)
    THEN found \o Flush(buf, page, start, token_id_map)
    ELSE LET line == lines[idx0 + 1]
             stop == IsStopCue(line)
         IN  IF stop /\ buf # <<>>
             THEN ProposeFrom(lines, idx0 + 1, page, token_id_map,
                              found \o FlushAtStopCue(buf, page, start, token_id_map),
                              NoStart, <<>>)
             ELSE IF HasStructure(line) /\ HasNumbers(line) /\ ~stop
             THEN ProposeFrom(lines, idx0 + 1, page, token_id_map, found,
                              IF start = NoStart THEN idx0 ELSE start,
                              Append(buf, line))
             ELSE ProposeFrom(lines, idx0 + 1, page, token_id_map,
                              found \o Flush(buf, page, start, token_id_map),
                              NoStart, <<>>)

\* LayoutAgent.propose_table_regions
ProposeTableRegions(lines, page, token_id_map) ==
    IF Len(lines) < 3 THEN <<>>
    ELSE ProposeFrom(lines, 0, page, token_id_map, <<>>, NoStart, <<>>)

(***************************************************************************)
(* propose_table_regions called on its own, with the lines of one page and *)
(* the token_id_map process_page builds (every token of the page).  Line k *)
(* lies at y = 10 k and is a table row, a row of totals, a line of words   *)
(* or a lone amount.                                                       *)
(***************************************************************************)
MaxLines == 6

TotalText == <<"T", "o", "t", "a", "l">>

LineKinds == {"row", "totals", "words", "amount"}

LineAt(k, kind) ==
    LET first == 2 * (k - 1)
        y == 10 * k
    IN  CASE kind = "row" ->
               <<PageToken(first, FeeText, "text", 10, y),
                 PageToken(first + 1, Amount7500, "currency", 30, y)>>
          [] kind = "totals" ->
               <<PageToken(first, TotalText, "text", 10, y),
                 PageToken(first + 1, Amount7500, "currency", 30, y)>>
          [] kind = "words" ->
               <<PageToken(first, FeeText, "text", 10, y),
                 PageToken(first + 1, ItemText, "text", 30, y)>>
          [] OTHER ->
               <<PageToken(first, Amount7500, "currency", 10, y)>>

LinesOfKinds(kinds) == [k \in DOMAIN kinds |-> LineAt(k, kinds[k])]

AllIds(lines) ==
    LET all_tokens == Flatten(lines)
    IN  {all_tokens[i].id : i \in DOMAIN all_tokens}

InitLayout ==
    /\ IdleJob
    /\ pc = "u_propose_table_regions"
    /\ \E n \in 0..MaxLines : \E kinds \in [1..n -> LineKinds] :
       \E lines \in {LinesOfKinds(kinds)} :
          input = [lines |-> lines, token_id_map |-> AllIds(lines)]
    /\ result = <<>>
    /\ store = <<>>
    /\ workers = <<>>

\* table_regions = LayoutAgent.propose_table_regions(lines, page_num, token_id_map)
UProposeTableRegions ==
    /\ pc = "u_propose_table_regions"
    /\ result' = ProposeTableRegions(input.lines, page_num, input.token_id_map)
    /\ pc' = "u_returned"
    /\ UNCHANGED <<jobVars, input, store, workers>>

NextLayout == UProposeTableRegions

SpecLayout == InitLayout /\ [][NextLayout]_vars

(***************************************************************************)
(* TableAgent.  Coordinates are thousandths of the page, so the column     *)
(* tolerance 0.02 is 20 and the row tolerance 0.015 is 15.  A returned     *)
(* Extraction is a one-element sequence and None the empty sequence.       *)
(***************************************************************************)
X_TOLERANCE == 20

Y_TOLERANCE == 15

SINGLE_COLUMN_CONFIDENCE == 60

GRID_CONFIDENCE == 80

\* sorted(tokens, key=...): Python's sort is stable
RankX(s, i) ==
    Cardinality({j \in DOMAIN s : \/ s[j].bbox.x < s[i].bbox.x
                                  \/ s[j].bbox.x = s[i].bbox.x /\ j < i}) + 1

SortedByX(s) == [p \in DOMAIN s |-> s[CHOOSE i \in DOMAIN s : RankX(s, i) = p]]

RankY(s, i) ==
    Cardinality({j \in DOMAIN s : \/ s[j].bbox.y < s[i].bbox.y
                                  \/ s[j].bbox.y = s[i].bbox.y /\ j < i}) + 1

SortedByY(s) == [p \in DOMAIN s |-> s[CHOOSE i \in DOMAIN s : RankY(s, i) = p]]

\* the loop of _cluster_columns and of _group_rows: a token joins the
\* current group when it is within the tolerance of the group's FIRST token
RECURSIVE GroupFrom(_, _, _, _, _)
GroupFrom(keys, tol, i, current, groups) ==
    IF i > Len(keys) THEN Append(groups, current)
    ELSE IF Abs(keys[i] - keys[current[1]]) <= tol
         THEN GroupFrom(keys, tol, i + 1, Append(current, i), groups)
         ELSE GroupFrom(keys, tol, i + 1, <<i>>, Append(groups, current))

GroupsOf(sorted, keys, tol) ==
    LET groups == GroupFrom(keys, tol, 2, <<1>>, <<>>)
    IN  [g \in DOMAIN groups |->
            [k \in DOMAIN groups[g] |-> sorted[groups[g][k]]]]

ClusterColumns(toks) ==
    IF toks = <<>> THEN <<>>
    ELSE LET sorted_tokens == SortedByX(toks)
         IN  GroupsOf(sorted_tokens,
                      [i \in DOMAIN sorted_tokens |-> sorted_tokens[i].bbox.x],
                      X_TOLERANCE)

\* the columns argument is not read
GroupRows(toks, columns) ==
    LET sorted_tokens == SortedByY(toks)
    IN  GroupsOf(sorted_tokens,
                 [i \in DOMAIN sorted_tokens |-> sorted_tokens[i].bbox.y],
                 Y_TOLERANCE)

CellsOf(row) == [k \in DOMAIN row |-> row[k].text]

BuildTableGrid(rows, num_cols) ==
    [r \in DOMAIN rows |->
        LET row_cells == CellsOf(SortedByX(rows[r]))
        IN  [c \in 1..num_cols |->
                IF c <= Len(row_cells) THEN row_cells[c] ELSE <<>>]]

GridData(table_data, columns, num_cols) ==
    [rows |-> table_data, columns |-> columns,
     num_rows |-> Len(table_data), num_cols |-> num_cols]

TableExtraction(region_id, data, conf) ==
    [extraction_id |-> <<"ext", region_id>>, region_id |-> region_id,
     data |-> data, confidence |-> conf, validation_status |-> "pending",
     extracted_by |-> "table_agent", method |-> "agent_inferred"]

\* the fallback of lines 63-92: every row keeps all of its tokens
SingleColumn(region_id, toks) ==
    IF Len(toks) >= 3
    THEN LET rows == GroupRows(toks, [i \in DOMAIN toks |-> <<toks[i]>>])
         IN  IF Len(rows) >= 2
             THEN <<TableExtraction(region_id,
                       GridData([r \in DOMAIN rows |-> CellsOf(rows[r])],
                                <<"col_0">>, 1),
                       SINGLE_COLUMN_CONFIDENCE)>>
             ELSE <<>>
    ELSE <<>>

ExtractTable(region_id, token_ids, graph_tokens) ==
    LET toks == TokensOf(token_ids, graph_tokens)
    IN  IF toks = <<>> THEN <<>>
        ELSE LET columns == ClusterColumns(toks)
             IN  IF Len(columns) < 2 THEN SingleColumn(region_id, toks)
                 ELSE LET rows == GroupRows(toks, columns)
                      IN  IF Len(rows) < 2 THEN <<>>
                          ELSE <<TableExtraction(region_id,
                                    GridData(BuildTableGrid(rows, Len(columns)),
                                             [i \in DOMAIN columns |->
                                                 <<"col", i - 1>>],
                                             Len(columns)),
                                    GRID_CONFIDENCE)>>

(***************************************************************************)
(* TableAgent.extract_table called on a graph whose table region holds     *)
(* every token: each token sits at one of a few places, two of the x       *)
(* values within the column tolerance of each other and two of the y       *)
(* values within the row tolerance.                                        *)
(***************************************************************************)
MaxTableTokens == 4

TokenXs == {100, 110, 300}

TokenYs == {100, 110, 200}

TableTokenAt(i, x, y) ==
    PageToken(i - 1, IF i % 2 = 1 THEN ItemText ELSE AmountText,
              IF i % 2 = 1 THEN "text" ELSE "currency", x, y)

InitTable ==
    /\ IdleJob
    /\ pc = "u_extract_table"
    /\ \E n \in 0..MaxTableTokens : \E at \in [1..n -> TokenXs \X TokenYs] :
          input = [region_id |-> TableRegionId,
                   token_ids |-> [i \in 1..n |-> i - 1],
                   tokens |-> [i \in 1..n |->
                                  TableTokenAt(i, at[i][1], at[i][2])]]
    /\ result = <<>>
    /\ store = <<>>
    /\ workers = <<>>

UExtractTable ==
    /\ pc = "u_extract_table"
    /\ result' = ExtractTable(input.region_id, input.token_ids, input.tokens)
    /\ pc' = "u_returned"
    /\ UNCHANGED <<jobVars, input, store, workers>>

NextTable == UExtractTable

SpecTable == InitTable /\ [][NextTable]_vars

(***************************************************************************)
(* LayoutAgent.cluster_tokens_into_lines (lines 150-198).  Without tokens  *)
(* it returns no line.  Without a y_tolerance its first statement after    *)
(* that reads t.bbox.h of the first token (line 164); BBox has the fields  *)
(* x, y, width and height only, so the read raises AttributeError.  With a *)
(* y_tolerance the tokens are sorted by (y, x) and the first one opens a   *)
(* line; the loop body reads token.bbox.h for the second token (line 181)  *)
(* and raises the same way, so only a single token is returned, as one     *)
(* line.                                                                   *)
(***************************************************************************)
NoTolerance == -1

Clustered(exc, lines) == [raised |-> exc, lines |-> lines]

RankYX(s, i) ==
    Cardinality({j \in DOMAIN s :
                    \/ s[j].bbox.y < s[i].bbox.y
                    \/ s[j].bbox.y = s[i].bbox.y /\ s[j].bbox.x < s[i].bbox.x
                    \/ /\ s[j].bbox.y = s[i].bbox.y
                       /\ s[j].bbox.x = s[i].bbox.x
                       /\ j < i}) + 1

SortedByYX(s) == [p \in DOMAIN s |-> s[CHOOSE i \in DOMAIN s : RankYX(s, i) = p]]

LayoutClusterTokensIntoLines(toks, y_tolerance) ==
    IF toks = <<>> THEN Clustered("none", <<>>)
    ELSE IF y_tolerance = NoTolerance THEN Clustered("AttributeError", <<>>)
    ELSE LET sorted_tokens == SortedByYX(toks)
         IN  IF Len(sorted_tokens) > 1
             THEN Clustered("AttributeError", <<>>)
             ELSE Clustered("none", <<SortedByX(<<sorted_tokens[1]>>)>>)

(***************************************************************************)
(* cluster_tokens_into_lines called on the tokens of a page, in any order  *)
(* and with repetitions of a place: tokens at a few places, of two         *)
(* heights, with the default y_tolerance or with a given one.              *)
(***************************************************************************)
MaxClusterTokens == 3

GivenTolerance == 3

ClusterPlaces == {10, 30} \X {10, 12, 20} \X {4, 8}

ClusterToken(tid, place) ==
    [id |-> tid, text |-> ItemText, token_type |-> "text",
     bbox |-> BBox(place[1], place[2], 10, place[3])]

InitCluster ==
    /\ IdleJob
    /\ pc = "u_cluster_tokens_into_lines"
    /\ \E n \in 0..MaxClusterTokens : \E at \in [1..n -> ClusterPlaces] :
       \E tol \in {NoTolerance, GivenTolerance} :
          input = [tokens |-> [i \in 1..n |-> ClusterToken(i - 1, at[i])],
                   y_tolerance |-> tol]
    /\ result = <<>>
    /\ store = <<>>
    /\ workers = <<>>

UClusterTokensIntoLines ==
    /\ pc = "u_cluster_tokens_into_lines"
    /\ \E done \in {LayoutClusterTokensIntoLines(input.tokens, input.y_tolerance)} :
          IF done.raised # "none"
          THEN /\ raised' = done.raised
               /\ pc' = "u_raised"
               /\ UNCHANGED <<status, outcome, pages, tokens, regions,
                              extractions, decisions, trace, dispatched, calls,
                              approved, page_num, failed, idx, decision,
                              callVars>>
          ELSE /\ result' = done.lines
               /\ pc' = "u_returned"
               /\ UNCHANGED <<jobVars, input, store, workers>>

NextCluster == UClusterTokensIntoLines

SpecCluster == InitCluster /\ [][NextCluster]_vars

(***************************************************************************)
(* ProcessingRunState (state_machines.py) and ProcessingRunService         *)
(* (processing_run_service.py).  The processing_runs table is the sequence *)
(* store of its rows, here the rows of one run id.  A call of              *)
(* update_status is two steps on the table, the SELECT of                  *)
(* get_processing_run and the UPDATE; what the call holds between them is  *)
(* in workers, one entry per caller.                                       *)
(***************************************************************************)
ProcessingRunState == {"pending", "running", "completed", "failed"}

\* ProcessingRunState.valid_transitions
AnyTransition(state) == ProcessingRunState

valid_transitions(state) ==
    CASE state = "pending" -> {"running", "failed"}
      [] state = "running" -> {"completed", "failed"}
      [] state = "completed" -> {}
      [] state = "failed" -> {}

is_terminal(state) == state \in {"completed", "failed"}

\* validate_processing_run_transition: TRUE when it returns, FALSE when it
\* raises InvalidStateTransitionError
validate_processing_run_transition(current_state, new_state) ==
    new_state \in valid_transitions(current_state)

\* create_processing_run, the row it inserts
ProcessingRunRow ==
    [status |-> "pending", started_at |-> None, completed_at |-> None,
     updated_at |-> "created", error_message |-> None]

\* get_processing_run: LIMIT 1 of the rows of the run id
get_processing_run(table) == IF table = <<>> THEN <<>> ELSE <<table[1]>>

\* the updates dictionary of update_status, applied by the UPDATE statement
Updated(row, current_run, new_status, error_message) ==
    [row EXCEPT
        !.status = new_status,
        !.updated_at = "updated",
        !.started_at = IF new_status = "running" /\ current_run.started_at = None
                       THEN "set" ELSE @,
        !.completed_at = IF new_status \in {"completed", "failed"}
                         THEN "set" ELSE @,
        !.error_message = IF error_message # None THEN error_message ELSE @]

UpdateRows(table, current_run, new_status, error_message) ==
    [i \in DOMAIN table |-> Updated(table[i], current_run, new_status, error_message)]

MaxCalls == 3

Caller ==
    [pc |-> "idle", new_status |-> None, error_message |-> None,
     current_run |-> <<>>, returned |-> "none", calls |-> 0]

\* update_status is called
UpdateStatusCall(w) ==
    /\ workers[w].pc = "idle"
    /\ workers[w].calls < MaxCalls
    /\ \E new_status \in ProcessingRunState : \E error_message \in {None, "error"} :
          workers' = [workers EXCEPT ![w] =
                         [pc |-> "get_processing_run", new_status |-> new_status,
                          error_message |-> error_message, current_run |-> <<>>,
                          returned |-> "none", calls |-> @.calls + 1]]
    /\ UNCHANGED <<pc, jobVars, input, result, store>>

\* lines 163-172: the row is read and the transition validated against it
UpdateStatusRead(w) ==
    /\ workers[w].pc = "get_processing_run"
    /\ \E current_run \in {get_processing_run(store)} :
          workers' = [workers EXCEPT ![w] =
              IF current_run = <<>>
              THEN [@ EXCEPT !.pc = "idle", !.returned = "False"]
              ELSE IF ~validate_processing_run_transition(
                          current_run[1].status, @.new_status)
                   THEN [@ EXCEPT !.pc = "idle", !.current_run = current_run,
                                  !.returned = "InvalidStateTransitionError"]
                   ELSE [@ EXCEPT !.pc = "update", !.current_run = current_run]]
    /\ UNCHANGED <<pc, jobVars, input, result, store>>

\* lines 174-222: UPDATE ... SET ... WHERE id = @run_id
UpdateStatusWrite(w) ==
    /\ workers[w].pc = "update"
    /\ store' = UpdateRows(store, workers[w].current_run[1],
                           workers[w].new_status, workers[w].error_message)
    /\ workers' = [workers EXCEPT ![w] =
                      [@ EXCEPT !.pc = "idle",
                                !.returned = IF Len(store) > 0 THEN "True"
                                             ELSE "False"]]
    /\ UNCHANGED <<pc, jobVars, input, result>>

NextRuns ==
    \E w \in DOMAIN workers :
        \/ UpdateStatusCall(w)
        \/ UpdateStatusRead(w)
        \/ UpdateStatusWrite(w)

InitRuns(callers) ==
    /\ IdleJob
    /\ pc = "processing_runs"
    /\ input = <<>>
    /\ result = <<>>
    /\ store \in {<<>>, <<ProcessingRunRow>>}
    /\ workers = [w \in callers |-> Caller]

\* one caller: every call ends before the next begins
SpecRuns == InitRuns({1}) /\ [][NextRuns]_vars

\* two callers, whose reads and writes interleave
SpecRunsInterleaved == InitRuns({1, 2}) /\ [][NextRuns]_vars

(***************************************************************************)
(* StepRunState (state_machines.py), StepRun (step_run.py) and Idempotency *)
(* (idempotency.py).  store holds the two tables, idempotency_keys and     *)
(* step_runs, as sequences of rows.                                        *)
(***************************************************************************)
StepRunState ==
    {"pending", "running", "completed", "failed_retryable", "failed_terminal"}

\* StepRunState.valid_transitions
step_valid_transitions(state) ==
    CASE state = "pending" -> {"running", "failed_terminal"}
      [] state = "running" -> {"completed", "failed_retryable", "failed_terminal"}
      [] state = "completed" -> {}
      [] state = "failed_retryable" -> {"running"}
      [] state = "failed_terminal" -> {}

is_retryable(state) == state = "failed_retryable"

\* TRUE when it returns, FALSE when it raises InvalidStateTransitionError
validate_step_run_transition(current_state, new_state) ==
    new_state \in step_valid_transitions(current_state)

\* the row that the MERGE of check_and_insert_key inserts
KeyRow(key_hash) ==
    [key_hash |-> key_hash, result_reference |-> None, completed_at |-> None]

\* the row that create_step_run inserts
StepRunRow(key_hash) ==
    [status |-> "pending", idempotency_key |-> key_hash, started_at |-> None,
     completed_at |-> None, output_reference |-> None, error_message |-> None,
     retry_count |-> 0]

DbTables(idempotency_keys, step_runs) ==
    [idempotency_keys |-> idempotency_keys, step_runs |-> step_runs]

\* get_cached_result: LIMIT 1 of the rows with the key
get_cached_result(idempotency_keys, key_hash) ==
    LET found == SelectSeq(idempotency_keys, LAMBDA row : row.key_hash = key_hash)
    IN  IF found = <<>> THEN <<>> ELSE <<found[1]>>

\* an INSERT in place of the MERGE
InsertKey(idempotency_keys, key_hash) == Append(idempotency_keys, KeyRow(key_hash))

\* MERGE ... ON target.key_hash = source.key_hash WHEN NOT MATCHED THEN
\* INSERT: one statement
MergeKey(idempotency_keys, key_hash) ==
    IF \E i \in DOMAIN idempotency_keys : idempotency_keys[i].key_hash = key_hash
    THEN idempotency_keys
    ELSE Append(idempotency_keys, KeyRow(key_hash))

\* store_result: UPDATE ... WHERE key_hash = @key_hash
store_result(idempotency_keys, key_hash, result_reference) ==
    [i \in DOMAIN idempotency_keys |->
        IF idempotency_keys[i].key_hash = key_hash
        THEN [idempotency_keys[i] EXCEPT !.result_reference = result_reference,
                                         !.completed_at = "set"]
        ELSE idempotency_keys[i]]

\* get_step_run: LIMIT 1 of the rows of the step run id
get_step_run(step_runs) == IF step_runs = <<>> THEN <<>> ELSE <<step_runs[1]>>

StepDone(tables, returned) == [tables |-> tables, returned |-> returned]

\* StepRun.update_status
StepUpdateStatus(tables, new_status, output_reference, error_message) ==
    LET current_step == get_step_run(tables.step_runs)
    IN  IF current_step = <<>> THEN StepDone(tables, "False")
        ELSE IF ~validate_step_run_transition(current_step[1].status, new_status)
        THEN StepDone(tables, "InvalidStateTransitionError")
        ELSE StepDone(
               DbTables(IF output_reference # None
                      THEN store_result(tables.idempotency_keys,
                                        current_step[1].idempotency_key,
                                        output_reference)
                      ELSE tables.idempotency_keys,
                      [i \in DOMAIN tables.step_runs |->
                          [tables.step_runs[i] EXCEPT
                              !.status = new_status,
                              !.started_at =
                                  IF new_status = "running"
                                     /\ current_step[1].started_at = None
                                  THEN "set" ELSE @,
                              !.completed_at =
                                  IF new_status \in {"completed", "failed_terminal"}
                                  THEN "set" ELSE @,
                              !.output_reference =
                                  IF output_reference # None
                                  THEN output_reference ELSE @,
                              !.error_message =
                                  IF error_message # None
                                  THEN error_message ELSE @]]),
               "True")

\* StepRun.retry_step_run
RetryStepRun(tables) ==
    LET current_step == get_step_run(tables.step_runs)
    IN  IF current_step = <<>> THEN StepDone(tables, "False")
        ELSE IF ~is_retryable(current_step[1].status)
        THEN StepDone(tables, "ValueError")
        ELSE IF ~validate_step_run_transition(current_step[1].status, "pending")
        THEN StepDone(tables, "InvalidStateTransitionError")
        ELSE StepDone(
               DbTables(tables.idempotency_keys,
                      [i \in DOMAIN tables.step_runs |->
                          [tables.step_runs[i] EXCEPT
                              !.status = "pending",
                              !.retry_count = @ + 1,
                              !.error_message = None]]),
               "True")

(***************************************************************************)
(* One caller of StepRun.update_status and StepRun.retry_step_run on a     *)
(* step run that create_step_run has inserted, or on an id without a row.  *)
(***************************************************************************)
StepCaller(method, returned, n) ==
    [method |-> method, returned |-> returned, calls |-> n]

InitSteps ==
    /\ IdleJob
    /\ pc = "step_runs"
    /\ input = <<>>
    /\ result = <<>>
    /\ \E step_runs \in {<<>>, <<StepRunRow("k1")>>} :
          store = DbTables(<<KeyRow("k1")>>, step_runs)
    /\ workers = <<StepCaller(None, "none", 0)>>

UStepUpdateStatus ==
    /\ pc = "step_runs"
    /\ workers[1].calls < MaxCalls
    /\ \E new_status \in StepRunState :
       \E output_reference \in {None, "reference"} :
       \E error_message \in {None, "error"} :
       \E done \in {StepUpdateStatus(store, new_status, output_reference,
                                     error_message)} :
          /\ store' = done.tables
          /\ workers' = <<StepCaller("update_status", done.returned,
                                     workers[1].calls + 1)>>
    /\ UNCHANGED <<pc, jobVars, input, result>>

URetryStepRun ==
    /\ pc = "step_runs"
    /\ workers[1].calls < MaxCalls
    /\ \E done \in {RetryStepRun(store)} :
          /\ store' = done.tables
          /\ workers' = <<StepCaller("retry_step_run", done.returned,
                                     workers[1].calls + 1)>>
    /\ UNCHANGED <<pc, jobVars, input, result>>

NextSteps == UStepUpdateStatus \/ URetryStepRun

SpecSteps == InitSteps /\ [][NextSteps]_vars

(***************************************************************************)
(* StepRun.create_step_run called by several callers at once.  Each call   *)
(* is the SELECT of get_cached_result, the MERGE, the second SELECT of a   *)
(* call whose MERGE inserted nothing, and the insert of the step run;      *)
(* insert_rows_json may report errors, and the call then raises.           *)
(***************************************************************************)
MaxCallers == 3

KeyHashes == {"k1", "k2"}

KeyCaller ==
    [pc |-> "idle", key_hash |-> None, num_inserted |-> <<>>,
     was_inserted |-> None, returned |-> "none"]

\* create_step_run is called: lines 87-93
CreateStepRunCall(w) ==
    /\ workers[w].pc = "idle"
    /\ workers[w].returned = "none"
    /\ \E key_hash \in KeyHashes :
          workers' = [workers EXCEPT ![w] =
                         [@ EXCEPT !.pc = "get_cached_result",
                                   !.key_hash = key_hash]]
    /\ UNCHANGED <<pc, jobVars, input, result, store>>

\* check_and_insert_key, lines 58-68, and the duplicate of lines 109-117
CheckExisting(w) ==
    /\ workers[w].pc = "get_cached_result"
    /\ workers' = [workers EXCEPT ![w] =
          IF get_cached_result(store.idempotency_keys, @.key_hash) # <<>>
          THEN [@ EXCEPT !.pc = "idle", !.was_inserted = "False",
                         !.returned = "duplicate"]
          ELSE [@ EXCEPT !.pc = "merge"]]
    /\ UNCHANGED <<pc, jobVars, input, result, store>>

\* check_and_insert_key, lines 70-108
CheckMerge(w) ==
    /\ workers[w].pc = "merge"
    /\ \E merged \in {MergeKey(store.idempotency_keys, workers[w].key_hash)} :
       \E num_inserted \in {Len(merged) - Len(store.idempotency_keys)} :
          /\ store' = DbTables(merged, store.step_runs)
          /\ workers' = [workers EXCEPT ![w] =
                IF num_inserted > 0
                THEN [@ EXCEPT !.pc = "insert_rows_json",
                               !.num_inserted = <<num_inserted>>,
                               !.was_inserted = "True"]
                ELSE [@ EXCEPT !.pc = "race_lost",
                               !.num_inserted = <<num_inserted>>]]
    /\ UNCHANGED <<pc, jobVars, input, result>>

\* check_and_insert_key, lines 109-118, and the duplicate of lines 109-117
CheckRaceLost(w) ==
    /\ workers[w].pc = "race_lost"
    /\ workers' = [workers EXCEPT ![w] =
                      [@ EXCEPT !.pc = "idle", !.was_inserted = "False",
                                !.returned = "duplicate"]]
    /\ UNCHANGED <<pc, jobVars, input, result, store>>

\* create_step_run, lines 119-155
InsertStepRun(w) ==
    /\ workers[w].pc = "insert_rows_json"
    /\ \/ /\ store' = DbTables(store.idempotency_keys,
                             Append(store.step_runs,
                                    StepRunRow(workers[w].key_hash)))
          /\ workers' = [workers EXCEPT ![w] =
                            [@ EXCEPT !.pc = "idle", !.returned = "created"]]
       \/ /\ store' = store
          /\ workers' = [workers EXCEPT ![w] =
                            [@ EXCEPT !.pc = "idle", !.returned = "Exception"]]
    /\ UNCHANGED <<pc, jobVars, input, result>>

NextKeys ==
    \E w \in DOMAIN workers :
        \/ CreateStepRunCall(w)
        \/ CheckExisting(w)
        \/ CheckMerge(w)
        \/ CheckRaceLost(w)
        \/ InsertStepRun(w)

InitKeys ==
    /\ IdleJob
    /\ pc = "idempotency_keys"
    /\ input = <<>>
    /\ result = <<>>
    /\ store = DbTables(<<>>, <<>>)
    /\ workers = [w \in 1..MaxCallers |-> KeyCaller]

SpecKeys == InitKeys /\ [][NextKeys]_vars

(***************************************************************************)
(* The proposal followed by the gate.  LayoutAgent.process_page adds the    *)
(* tokens of the page to the graph (here in line order) and the proposed   *)
(* regions after them (layout_agent.py, lines 384-423), and                *)
(* StructureGate.filter_regions goes through the regions of the page.      *)
(***************************************************************************)
UGateProposed ==
    /\ pc = "u_returned"
    /\ "lines" \in DOMAIN input
    /\ tokens' = Flatten(input.lines)
    /\ regions' = regions \o result
    /\ \E done \in {FilterRegions(regions', tokens', page_num)} :
          IF done.raised # "none"
          THEN /\ raised' = done.raised
               /\ pc' = "u_raised"
               /\ UNCHANGED <<approved, decisions>>
          ELSE /\ approved' = done.approved
               /\ decisions' = decisions \o done.decisions
               /\ pc' = "u_gated"
               /\ UNCHANGED raised
    /\ UNCHANGED <<status, outcome, pages, extractions, trace, dispatched,
                   calls, page_num, failed, idx, decision, callVars>>

NextProposedGate == UProposeTableRegions \/ UGateProposed

SpecProposedGate == InitLayout /\ [][NextProposedGate]_vars

\* Either family of behaviours: a job, or a method called on its own.
SpecAll == (Init \/ InitUnit) /\ [][Next \/ NextUnit]_vars

(***************************************************************************)
(* StructureGate.filter_regions, lines 68-78: what the gate does with a    *)
(* region.  A heading passes unscored, a region without tokens is rejected *)
(* ("no_tokens"), any other region is scored against the 0.6 threshold.    *)
(***************************************************************************)
GateVerdict(region) ==
    IF region.region_type = "heading" THEN "approved"
    ELSE IF region.token_ids = <<>> THEN "no_tokens"
    ELSE "scored"

(***************************************************************************)
(*                              Properties                                 *)
(***************************************************************************)
Terminal == {"completed", "failed"}

UnitLeft == {"u_returned", "u_raised"}

CountStatus(exts, st) ==
    Cardinality({k \in DOMAIN exts : exts[k].validation_status = st})

\* C1: _determine_outcome assigns NO_MATCH when the graph holds no region;
\* otherwise NO_MATCH when no extraction has status PASS; otherwise
\* PARTIAL_SUCCESS when at least one extraction has status FAIL; otherwise
\* SUCCESS -- for every number of regions and every combination of statuses.
C1_OutcomeRule ==
    (pc = "u_returned" /\ outcome # None) =>
        LET nPass == CountStatus(extractions, "pass")
            nFail == CountStatus(extractions, "fail")
        IN  /\ Len(regions) = 0 => outcome = "no_match"
            /\ (Len(regions) > 0 /\ nPass = 0) => outcome = "no_match"
            /\ (Len(regions) > 0 /\ nPass > 0 /\ nFail > 0) =>
                   outcome = "partial_success"
            /\ (Len(regions) > 0 /\ nPass > 0 /\ nFail = 0) =>
                   outcome = "success"

\* two regions, three extractions of which two passed and one failed
C1_Witness ==
    /\ pc = "u_returned"
    /\ Len(regions) = 2
    /\ Len(extractions) = 3
    /\ CountStatus(extractions, "pass") = 2
    /\ CountStatus(extractions, "fail") = 1
    /\ outcome = "partial_success"

RetryActions == {"retry_pad", "retry_ocr", "retry_higher_dpi"}

RetriesIssuedFor(eid) ==
    Cardinality({k \in DOMAIN decisions :
                    /\ decisions[k].agent = "orchestrator"
                    /\ decisions[k].decision \in RetryActions
                    /\ decisions[k].extraction_id = eid})

\* one iteration of the retry loop, for the extraction it handles
C2_Iteration ==
    pc = "u_retry_loop" =>
        LET i == failed[idx]
            e == extractions[i]
        IN  /\ failed' = failed
            /\ idx' = idx + 1
            /\ Len(decisions') <= Len(decisions) + 1
            /\ Len(regions') <= Len(regions) + 1
            /\ Len(extractions') <= Len(extractions) + 1
            /\ EndsWithRetry(e.extraction_id) =>
                   /\ extractions'[i].validation_status = "warning"
                   /\ decisions' = decisions
                   /\ regions' = regions
                   /\ Len(extractions') = Len(extractions)

\* at most one retry issued for an extraction, none for the product of a retry
C2_AtMostOne ==
    \A k \in DOMAIN extractions :
        LET eid == extractions[k].extraction_id
        IN  /\ RetriesIssuedFor(eid) <= 1
            /\ EndsWithRetry(eid) => RetriesIssuedFor(eid) = 0

\* C2: the retry step issues at most one retry for a failed extraction; a
\* failed extraction that is itself the product of a retry (id ending in
\* "_retry") is set to WARNING and gets no retry; the loop walks once over
\* the failed extractions it found at its start, so the step always ends.
C2_RetryAtMostOnce ==
    /\ C2_AtMostOne
    /\ [][C2_Iteration /\ C2_AtMostOne']_vars
    /\ (pc = "u_handle_retries") ~> (pc \in UnitLeft)

\* two failed extractions handled: the product of a retry is now WARNING
\* and the other one got its single retry
C2_Witness ==
    /\ pc = "u_returned"
    /\ idx = 3
    /\ \E i, j \in DOMAIN extractions :
          /\ EndsWithRetry(extractions[i].extraction_id)
          /\ extractions[i].validation_status = "warning"
          /\ ~EndsWithRetry(extractions[j].extraction_id)
          /\ RetriesIssuedFor(extractions[j].extraction_id) = 1

CountTrace(step, st) ==
    Cardinality({k \in DOMAIN trace :
                    trace[k].step = step /\ trace[k].status = st})

CountDecisions(agent, what) ==
    Cardinality({k \in DOMAIN decisions :
                    decisions[k].agent = agent /\ decisions[k].decision = what})

\* C3: when a step of run() raises, run() ends with status failed and
\* outcome FAILED, never SUCCESS, PARTIAL_SUCCESS or NO_MATCH, and with
\* exactly one error entry in the trace and exactly one in the decision log,
\* each the last entry of its log.
C3_FailureRecorded ==
    raised # "none" =>
        /\ pc = "done"
        /\ status = "failed"
        /\ outcome = "FAILED"
        /\ outcome \notin {"success", "partial_success", "no_match"}
        /\ CountTrace("orchestration", "error") = 1
        /\ trace[Len(trace)] = TraceEntry("orchestration", "error")
        /\ \A k \in DOMAIN trace : trace[k].status = "error" => k = Len(trace)
        /\ CountDecisions("orchestrator", "failed") = 1
        /\ decisions[Len(decisions)].decision = "failed"
        /\ \A k \in DOMAIN decisions :
              decisions[k].decision = "failed" => k = Len(decisions)

\* validation raised with a camelot extraction in the graph
C3_Witness ==
    /\ raised = "TypeError"
    /\ status = "failed"
    /\ extractions # <<>>
    /\ Len(trace) > 1

C4_StatusStep ==
    \/ status' = status
    \/ status = "pending" /\ status' = "running"
    \/ status = "running" /\ status' \in Terminal

C4_TerminalStays == status \in Terminal => status' = status

\* C4: the status moves only pending -> running -> completed or
\* pending -> running -> failed, a terminal status never changes, and every
\* run() reaches a terminal status.
C4_StatusLifecycle ==
    /\ [][C4_StatusStep]_vars
    /\ [][C4_TerminalStays]_vars
    /\ <>(status \in Terminal)

\* a run that went through both pages of a document and completed
C4_Witness ==
    /\ status = "completed"
    /\ pc = "done"
    /\ Len(pages) = 2
    /\ page_num = 2

\* C5: in a terminal status the outcome is one of the four JobOutcome
\* members, and it is the FAILED member exactly when the status is failed;
\* while the status is pending or running the outcome is unset.
C5_OutcomeMatchesStatus ==
    /\ status \in Terminal =>
          /\ outcome \in JobOutcome
          /\ (outcome = "failed") <=> (status = "failed")
    /\ status \in {"pending", "running"} => outcome = None

MentionsMissing(extraction) ==
    extraction.validation_errors \in {<<ErrMissingId>>, <<ErrTooFew, ErrMISSING>>}

\* C6: for a failed extraction _decide_retry_strategy chooses RETRY_PAD with
\* pad_fraction 0.1 when the confidence is below 0.5; otherwise RETRY_OCR
\* when a validation error contains "missing" in any letter case; otherwise
\* ESCALATE.  Low confidence wins over "missing", and a confidence of
\* exactly 0.5 does not choose RETRY_PAD.
C6_RetryStrategy ==
    (pc \in {"u_retry_loop"} \cup UnitLeft /\ idx > 1) =>
        LET e == extractions[failed[idx - 1]]
        IN  ~EndsWithRetry(e.extraction_id) =>
              /\ e.confidence < 50 =>
                    /\ decision.action = "retry_pad"
                    /\ decision.next_params = [pad_fraction |-> 10]
              /\ (e.confidence >= 50 /\ MentionsMissing(e)) =>
                    decision.action = "retry_ocr"
              /\ (e.confidence >= 50 /\ ~MentionsMissing(e)) =>
                    decision.action = "escalate"
              /\ e.confidence = 50 => decision.action # "retry_pad"

\* the first failed extraction has confidence exactly 0.5 and an error in
\* capitals and got RETRY_OCR; the second has confidence 0.4 and an error
\* that mentions "missing" and got RETRY_PAD
C6_Witness ==
    /\ idx = 3
    /\ extractions[failed[1]].confidence = 50
    /\ extractions[failed[1]].validation_errors = <<ErrTooFew, ErrMISSING>>
    /\ decisions[1].decision = "retry_ocr"
    /\ decisions[1].extraction_id = extractions[failed[1]].extraction_id
    /\ extractions[failed[2]].confidence = 40
    /\ extractions[failed[2]].validation_errors = <<ErrMissingId>>
    /\ decision.action = "retry_pad"
    /\ decision.next_params.pad_fraction = 10

RetryOf(id) == [id EXCEPT !.retries = @ + 1]

PaddedAndClamped(padded, orig, p) ==
    /\ padded.x = Max(0, orig.x - p)
    /\ padded.y = Max(0, orig.y - p)
    /\ padded.x + padded.width = Min(100, orig.x + orig.width + p)
    /\ padded.y + padded.height = Min(100, orig.y + orig.height + p)

\* C7: after a RETRY_PAD with fraction 0.1 on an extraction whose region is
\* in the graph, the graph holds the padded region, and its bbox is the
\* original one grown by 0.1 on each side and cut to the page: left and top
\* edges max(0, x-p) and max(0, y-p), right and bottom edges
\* min(1, x+width+p) and min(1, y+height+p).
C7_PaddedBBox ==
    \A d \in DOMAIN decisions : \A i \in DOMAIN extractions :
    \A r \in DOMAIN regions :
        (/\ decisions[d].decision = "retry_pad"
         /\ decisions[d].extraction_id = extractions[i].extraction_id
         /\ regions[r].region_id = extractions[i].region_id)
        => \E q \in DOMAIN regions :
              /\ regions[q].region_id = RetryOf(regions[r].region_id)
              /\ PaddedAndClamped(regions[q].bbox, regions[r].bbox, 10)

C8_PaddedRetryStep ==
    LET i == failed[idx]
        e == extractions[i]
        n == Len(extractions)
        m == Len(regions)
    IN  (/\ ~EndsWithRetry(e.extraction_id)
         /\ e.confidence < 50
         /\ \E r \in DOMAIN regions : regions[r].region_id = e.region_id)
        => /\ Len(regions') = m + 1
           /\ SubSeq(regions', 1, m) = regions
           /\ regions'[m + 1].region_id = RetryOf(e.region_id)
           /\ Len(extractions') = n + 1
           /\ \A k \in DOMAIN extractions : k # i => extractions'[k] = extractions[k]
           /\ extractions'[n + 1].region_id = RetryOf(e.region_id)
           /\ extractions'[i].validation_status = "warning"
           /\ Len(extractions'[i].validation_errors) = Len(e.validation_errors) + 1
           /\ extractions'[i] =
                  [e EXCEPT !.validation_status = "warning",
                            !.validation_errors = extractions'[i].validation_errors]
           /\ SubSeq(extractions'[i].validation_errors, 1, Len(e.validation_errors))
                  = e.validation_errors

\* C8: a padded retry of a failed extraction keeps the original region and
\* every other extraction as they are, changes the original extraction only
\* by setting its status to WARNING and appending one note to its
\* validation errors, and appends the padded region and a new extraction of
\* that region.
C8_PaddedRetryFrame ==
    [][pc = "u_retry_loop" => C8_PaddedRetryStep]_vars

\* C9: once the job has its outcome, no extraction in the graph is still
\* PENDING.
C9_AllValidated ==
    outcome # None =>
        \A k \in DOMAIN extractions : extractions[k].validation_status # "pending"

PageOver(p) ==
    \/ p < page_num
    \/ pc = "done" /\ p < CountTrace("process_page", "started")

CamelotCalls(p) ==
    Cardinality({k \in DOMAIN calls :
                    calls[k].callee = "camelot" /\ calls[k].page = p})

TableRegionsOn(p) ==
    {r \in DOMAIN regions :
        regions[r].page = p /\ regions[r].region_type = "table"}

\* C11: for each page processed with native tokens, camelot is asked exactly
\* once when the page has no TABLE region and not at all when it has one.
C11_FallbackOnce ==
    \A p \in 0..(Len(pages) - 1) :
        (PageOver(p) /\ ~pages[p + 1].use_ocr) =>
            CamelotCalls(p) = IF TableRegionsOn(p) = {} THEN 1 ELSE 0

Rank(at) ==
    CASE at = "idle" -> 0
      [] at = "ingest" -> 1
      [] at = "process_pages" -> 2
      [] at = "validate" -> 3
      [] at = "handle_retries" -> 4
      [] at = "determine_outcome" -> 5
      [] at = "complete" -> 6
      [] at = "done" -> 7

IngestDecisions ==
    {k \in DOMAIN decisions :
        /\ decisions[k].agent = "orchestrator"
        /\ decisions[k].decision \in {"use_ocr", "use_pdf_text"}}

C12_Step ==
    /\ Rank(pc') >= Rank(pc)
    /\ pages' # pages => pc = "ingest"
    /\ (tokens' # tokens \/ calls' # calls) => pc = "process_pages"
    /\ (pc = "process_pages" /\ pc' # "done") => page_num' = page_num + 1
    /\ pc # "process_pages" => (page_num' = page_num \/ pc = "ingest")
    /\ outcome' # outcome => outcome = None
    /\ (outcome' # outcome /\ pc' # "done") => pc = "determine_outcome"

C12_Order ==
    /\ pc = "process_pages" =>
          /\ Cardinality(IngestDecisions) = Len(pages)
          /\ \A k \in IngestDecisions : k <= Len(pages) /\ decisions[k].page = k - 1
          /\ page_num < Len(pages)
          /\ CountTrace("process_page", "started") = page_num
    /\ pc \in {"validate", "handle_retries", "determine_outcome", "complete"} =>
          page_num = Len(pages)
    /\ \A k \in DOMAIN decisions :
          /\ decisions[k].agent = "validator" => Rank(pc) >= 3
          /\ (/\ decisions[k].agent = "orchestrator"
              /\ decisions[k].decision \in RetryActions \cup {"escalate"}) =>
                 Rank(pc) >= 4
    /\ Cardinality({k \in DOMAIN trace : trace[k].step = "determine_outcome"}) <= 1
    /\ outcome \in JobOutcome =>
          /\ pc \in {"complete", "done"}
          /\ trace[Len(trace)].step = "determine_outcome"

\* C12: within a job the steps run in order and never interleave: every
\* page's ingest decision is recorded before any page is processed, pages
\* are processed one at a time in increasing order, all of them before
\* validation, validation before any retry decision, and the outcome is
\* determined last and once.
C12_StepsInOrder ==
    /\ [][C12_Step]_vars
    /\ []C12_Order

\* a job of two pages that went through every step to its outcome
C12_Witness ==
    /\ pc = "done"
    /\ status = "completed"
    /\ Len(pages) = 2
    /\ CountTrace("process_page", "started") = 2
    /\ CamelotCalls(0) = 1
    /\ CamelotCalls(1) = 1
    /\ outcome = "no_match"

IsPrefix(a, b) == Len(a) <= Len(b) /\ SubSeq(b, 1, Len(a)) = a

C13_Step ==
    /\ IsPrefix(tokens, tokens')
    /\ IsPrefix(regions, regions')
    /\ IsPrefix(decisions, decisions')
    /\ IsPrefix(trace, trace')
    /\ Len(extractions) <= Len(extractions')
    /\ \A k \in DOMAIN extractions :
          /\ extractions'[k].extraction_id = extractions[k].extraction_id
          /\ extractions'[k].region_id = extractions[k].region_id
          /\ extractions'[k].extracted_by = extractions[k].extracted_by

\* C13: the graph is append-only: tokens, regions, extractions, decisions
\* and trace never shrink, no decision or trace entry is changed or removed,
\* and a region or an extraction, once in the graph, stays in it (an
\* extraction may be marked).
C13_AppendOnly == [][C13_Step]_vars

\* a failed job whose graph holds tokens, a camelot extraction of an earlier
\* page and the log of everything that happened
C13_Witness ==
    /\ pc = "done"
    /\ status = "failed"
    /\ tokens # <<>>
    /\ extractions # <<>>
    /\ Len(decisions) >= 4
    /\ Len(trace) >= 6

NewCalls == SubSeq(calls', Len(calls) + 1, Len(calls'))

C14_Step ==
    \A k \in DOMAIN NewCalls :
        NewCalls[k].raised =>
            /\ status' = status
            /\ raised' = "none"
            /\ NewCalls[k].callee = "pdfplumber" =>
                  /\ tokens' = tokens
                  /\ decisions' = Append(decisions,
                         Decision("layout_agent", "ocr_needed",
                                  NewCalls[k].page, NoId))
                  /\ \E j \in DOMAIN NewCalls :
                        /\ NewCalls[j].callee = "camelot"
                        /\ NewCalls[j].page = NewCalls[k].page
            /\ NewCalls[k].callee = "camelot" => extractions' = extractions

RegionExists(e) == \E i \in DOMAIN regions : regions[i].region_id = e.region_id

ValidationReturns == pc = "u_validate" /\ pc' = "u_returned"

C15_Step ==
    ValidationReturns /\ RegionExists(extractions[1]) =>
        LET before == extractions[1]
            after == extractions'[1]
            rules == RuleBased(before.data)
        IN  /\ rules.errors # <<>> =>
                /\ after.validation_status = "fail"
                /\ decision'.action = "retry_pad"
            /\ rules.errors = <<>> /\ rules.warnings # <<>> =>
                /\ after.validation_status = "warning"
                /\ after.confidence <= WARNING_CONFIDENCE_CAP
                /\ decision'.action = "accept"
            /\ rules.errors = <<>> /\ rules.warnings = <<>> =>
                /\ after.validation_status = "pass"
                /\ decision'.action = "accept"
            /\ after.confidence <= before.confidence

C15_StatusMapping == [][C15_Step]_vars

\* a table with a short row and nothing else wrong, extracted with
\* confidence 0.95: WARNING, 0.9, ACCEPT
C15_Witness ==
    /\ pc = "u_returned"
    /\ regions # <<>>
    /\ extractions[1].validation_status = "warning"
    /\ extractions[1].confidence = WARNING_CONFIDENCE_CAP
    /\ decision.action = "accept"

(***************************************************************************)
(* C16.  The semantic validator changes the result of a validation only    *)
(* by adding warnings: the status reached with it is FAIL only if the      *)
(* rules alone give FAIL, the hard errors are those of the rules, it is    *)
(* not called when the rules found a hard error, and when it is absent or  *)
(* raises an error the status and the errors are those of the rules        *)
(* alone.                                                                  *)
(***************************************************************************)
LlmCalls(cs) == SelectSeq(cs, LAMBDA c : c.callee = "llm")

C16_Step ==
    ValidationReturns =>
        LET before == extractions[1]
            after == extractions'[1]
            rules == RuleBased(before.data)
            alone == ValidateExtraction(regions, before, FALSE).ext
            asked == LlmCalls(calls')
        IN  /\ after.validation_status = "fail" => alone.validation_status = "fail"
            /\ RegionExists(before) =>
                  /\ Len(after.validation_errors) >= Len(rules.errors)
                  /\ SubSeq(after.validation_errors, 1, Len(rules.errors))
                        = rules.errors
                  /\ rules.errors # <<>> => asked = <<>>
            /\ (idx = 0 \/ \E i \in DOMAIN asked : asked[i].raised) =>
                  /\ after.validation_status = alone.validation_status
                  /\ after.validation_errors = alone.validation_errors
            /\ idx = 0 => asked = <<>>

C16_SemanticOnlyWarns == [][C16_Step]_vars

\* a validator with a semantic validator, rules without a hard error: the
\* call raised and the extraction passed
C16_Witness ==
    /\ pc = "u_returned"
    /\ idx = 1
    /\ LlmCalls(calls) # <<>>
    /\ LlmCalls(calls)[1].raised
    /\ extractions[1].validation_status = "pass"

(***************************************************************************)
(* C17.  When a data row of a validated table extraction, its cells joined *)
(* by blanks and lower-cased, contains total, sum, subtotal or grand       *)
(* total, validation records a hard error for a row and the status becomes *)
(* FAIL, whatever else the row and the table hold.                         *)
(***************************************************************************)
KeywordDataRows(rws) ==
    {i \in 2..Len(rws) :
        \E keyword \in TotalKeywords : Contains(keyword, Lower(Join(rws[i])))}

C17_Step ==
    /\ ValidationReturns
    /\ RegionExists(extractions[1])
    /\ "rows" \in extractions[1].data.keys
    /\ KeywordDataRows(extractions[1].data.rows) # {}
    => LET after == extractions'[1]
       IN  /\ after.validation_status = "fail"
           /\ \E i \in DOMAIN after.validation_errors :
                 after.validation_errors[i] = "Row contains total keyword"
           /\ decision'.action = "retry_pad"

Hundredths(cell) ==
    CASE cell = Amount7500 -> 7500
      [] cell = Amount7350 -> 7350
      [] cell = Amount7650 -> 7650
      [] cell = Amount7349 -> 7349
      [] cell = Amount7651 -> 7651
      [] cell = Amount6500 -> 6500
      [] OTHER -> 0

RECURSIVE ColumnTotal(_, _, _)
ColumnTotal(rws, name, i) ==
    IF i > Len(rws) THEN 0
    ELSE LET here == {j \in DOMAIN rws[i] : j \in DOMAIN rws[1] /\ rws[1][j] = name}
         IN  (IF here = {} THEN 0 ELSE Hundredths(rws[i][CHOOSE j \in here : TRUE]))
             + ColumnTotal(rws, name, i + 1)

SumCheckErrors(errs) ==
    {i \in DOMAIN errs :
        errs[i] \in {"Column sum mismatch", "Column not found in headers"}}

C18_Step ==
    /\ ValidationReturns
    /\ RegionExists(extractions[1])
    /\ "total" \in extractions[1].data.keys
    => LET data == extractions[1].data
           name == data.total[1][1]
           expected == data.total[1][2]
           total == ColumnTotal(data.rows, name, 2)
           off == IF total > expected THEN total - expected ELSE expected - total
           after == extractions'[1]
       IN  /\ SumCheckErrors(after.validation_errors) # {} <=> 100 * off > expected
           /\ SumCheckErrors(after.validation_errors) # {} =>
                 after.validation_status = "fail"

GateOver == pc \in UnitLeft

OnPage(r) == regions[r].page = page_num

RowsOf(r) ==
    LET toks == TokensOf(regions[r].token_ids, tokens)
    IN  {toks[i].bbox.y : i \in DOMAIN toks}

IsApproved(r) ==
    \E a \in DOMAIN approved : approved[a].region_id = regions[r].region_id

RejectionsOf(r) ==
    {d \in DOMAIN decisions :
        /\ decisions[d].agent = "structure_gate"
        /\ decisions[d].decision = "reject"
        /\ decisions[d].region_id = regions[r].region_id}

C19_FewRowsRejected ==
    GateOver =>
        \A r \in DOMAIN regions :
            /\ OnPage(r)
            /\ regions[r].region_type # "heading"
            /\ RowsOf(r) # {}
            /\ Cardinality(RowsOf(r)) < GATE_MIN_TABLE_ROWS
            => ~IsApproved(r) /\ RejectionsOf(r) # {}

(***************************************************************************)
(* C20.  filter_regions partitions the regions of the page: once it is     *)
(* over, every heading is approved, and every region that is not approved  *)
(* has exactly one reject decision in the decision log.                    *)
(***************************************************************************)
C20_Partition ==
    GateOver =>
        \A r \in DOMAIN regions :
            OnPage(r) =>
                /\ regions[r].region_type = "heading" => IsApproved(r)
                /\ ~IsApproved(r) => Cardinality(RejectionsOf(r)) = 1
                /\ IsApproved(r) => RejectionsOf(r) = {}

(***************************************************************************)
(* C21.  The TABLE regions propose_table_regions returns are exactly the   *)
(* maximal runs of at least 3 consecutive table-like lines (2 tokens or    *)
(* more, a data-typed token, no stop cue), in page order: a run ends at a  *)
(* stop-cue line, at a line that is not table-like, or at the end of the   *)
(* page; a run of 1 or 2 lines is not proposed; a stop-cue line is in no   *)
(* region.                                                                 *)
(***************************************************************************)
ProposalReturns == pc = "u_returned"

\* the lines of the model that are table-like: an item and an amount
IsTableLine(line) ==
    /\ Len(line) = 2
    /\ line[1].text = FeeText
    /\ line[2].token_type = "currency"

\* the runs, each as <<index of its first line counted from 0, length>>
MaximalRuns(lines) ==
    {<<a - 1, b - a + 1>> : <<a, b>> \in
        {r \in (1..Len(lines)) \X (1..Len(lines)) :
            /\ r[1] <= r[2]
            /\ \A k \in r[1]..r[2] : IsTableLine(lines[k])
            /\ r[1] = 1 \/ ~IsTableLine(lines[r[1] - 1])
            /\ r[2] = Len(lines) \/ ~IsTableLine(lines[r[2] + 1])}}

ProposedRuns ==
    {<<result[i].region_id.base[3], result[i].hints.lines>> : i \in DOMAIN result}

C21_MaximalRuns ==
    ProposalReturns =>
        /\ ProposedRuns = {r \in MaximalRuns(input.lines) : r[2] >= 3}
        /\ Cardinality(ProposedRuns) = Len(result)
        /\ \A i, j \in DOMAIN result :
              i < j => result[i].region_id.base[3] < result[j].region_id.base[3]
        /\ \A i \in DOMAIN result :
              /\ result[i].region_type = "table"
              /\ result[i].bbox.y = 10 * (result[i].region_id.base[3] + 1)
              /\ result[i].bbox.height = 10 * (result[i].hints.lines - 1) + 5

\* three rows, then a row of totals: one region of exactly the three rows
C21_Witness ==
    /\ ProposalReturns
    /\ Len(input.lines) >= 4
    /\ \A k \in 1..3 : IsTableLine(input.lines[k])
    /\ input.lines[4][1].text = TotalText
    /\ Len(result) >= 1
    /\ result[1].hints.lines = 3
    /\ result[1].bbox = BBox(10, 10, 30, 25)

(***************************************************************************)
(* C22.  Every TABLE region the Layout Engine flushes carries the token    *)
(* indices of exactly the tokens on its lines, whichever event closed it;  *)
(* a region closed by a stop cue has a non-empty list of token indices.    *)
(***************************************************************************)
IdsOnLines(lines, start0, n) ==
    LET all_tokens == Flatten(SubSeq(lines, start0 + 1, start0 + n))
    IN  [i \in DOMAIN all_tokens |-> all_tokens[i].id]

C22_TokenIdsOfLines ==
    ProposalReturns =>
        \A i \in DOMAIN result :
            result[i].token_ids =
                IdsOnLines(input.lines, result[i].region_id.base[3],
                           result[i].hints.lines)

(***************************************************************************)
(* C23.  Every Extraction that TableAgent.extract_table returns holds a    *)
(* rectangular grid: data.num_rows is the number of rows and every row has *)
(* exactly data.num_cols cells, the single-column fallback (confidence     *)
(* 0.6, one cell per row) included.                                        *)
(***************************************************************************)
ExtractionReturns == pc = "u_returned" /\ "tokens" \in DOMAIN input

C23_RectangularGrid ==
    ExtractionReturns =>
        \A i \in DOMAIN result :
            /\ result[i].data.num_rows = Len(result[i].data.rows)
            /\ \A r \in DOMAIN result[i].data.rows :
                  Len(result[i].data.rows[r]) = result[i].data.num_cols
            /\ result[i].confidence = SINGLE_COLUMN_CONFIDENCE
                  => result[i].data.num_cols = 1

(***************************************************************************)
(* C24.  Line clustering does not depend on the order of its input: for    *)
(* every sequence of tokens, cluster_tokens_into_lines returns lines, top  *)
(* to bottom, that hold every token once, and it returns the same sets of  *)
(* tokens per line for every other order of the same tokens, tokens that   *)
(* share a place and differ in height included.                            *)
(***************************************************************************)
ClusterLeft ==
    pc \in {"u_returned", "u_raised"} /\ "y_tolerance" \in DOMAIN input

LineSets(lines) ==
    {{lines[l][k].id : k \in DOMAIN lines[l]} : l \in DOMAIN lines}

Reordered(s) ==
    {[i \in DOMAIN s |-> s[p[i]]] :
        p \in {q \in [DOMAIN s -> DOMAIN s] : \A i, j \in DOMAIN s :
                                                  i # j => q[i] # q[j]}}

C24_OrderIndependent ==
    ClusterLeft =>
        /\ raised = "none"
        /\ UNION LineSets(result) = {input.tokens[i].id : i \in DOMAIN input.tokens}
        /\ \A l \in DOMAIN result : l > 1 =>
              result[l - 1][1].bbox.y <= result[l][1].bbox.y
        /\ \A other \in Reordered(input.tokens) :
              \E again \in {LayoutClusterTokensIntoLines(other, input.y_tolerance)} :
                 again.raised = "none" /\ LineSets(again.lines) = LineSets(result)

(***************************************************************************)
(* C25.  With calls of ProcessingRunService.update_status one after the    *)
(* other, the stored status changes only along pending -> running,         *)
(* pending -> failed, running -> completed and running -> failed; a call   *)
(* asking for any other transition raises InvalidStateTransitionError and  *)
(* leaves the row as it was; the row of a completed or failed run never    *)
(* changes.                                                                *)
(***************************************************************************)
AllowedTransitions ==
    {<<"pending", "running">>, <<"pending", "failed">>,
     <<"running", "completed">>, <<"running", "failed">>}

C25_Step ==
    /\ store # <<>> => Len(store') = Len(store)
    /\ \A i \in DOMAIN store :
          /\ store'[i].status # store[i].status
                => <<store[i].status, store'[i].status>> \in AllowedTransitions
          /\ store[i].status \in {"completed", "failed"} => store'[i] = store[i]
    /\ \A w \in DOMAIN workers :
          /\ workers[w].pc = "get_processing_run"
          /\ store # <<>>
          /\ <<store[1].status, workers[w].new_status>> \notin AllowedTransitions
          => /\ workers'[w].returned = "InvalidStateTransitionError"
             /\ workers'[w].pc = "idle"
             /\ store' = store
    /\ \A w \in DOMAIN workers :
          workers'[w].returned = "InvalidStateTransitionError" => store' = store

C25_OnlyValidTransitions == [][C25_Step]_vars

C25_Witness ==
    /\ pc = "processing_runs"
    /\ DOMAIN workers = {1}
    /\ store # <<>>
    /\ store[1].status = "completed"
    /\ store[1].started_at = "set"
    /\ workers[1].returned = "InvalidStateTransitionError"
    /\ workers[1].new_status = "running"

(***************************************************************************)
(* C30.  With two calls of update_status whose reads and writes            *)
(* interleave, the stored status never leaves completed or failed.         *)
(***************************************************************************)
C30_Step ==
    \A i \in DOMAIN store :
        store[i].status \in {"completed", "failed"}
            => store'[i].status = store[i].status

C30_TerminalStays == [][C30_Step]_vars

(***************************************************************************)
(* C26.  StepRun.retry_step_run on a step run whose status is              *)
(* failed_retryable sets the status to pending and adds one to             *)
(* retry_count; on a step run in any other status it fails and leaves the  *)
(* status and retry_count as they were.                                    *)
(***************************************************************************)
RetryCalled ==
    /\ pc = "step_runs"
    /\ workers'[1].calls = workers[1].calls + 1
    /\ workers'[1].method = "retry_step_run"
    /\ store.step_runs # <<>>

C26_Step ==
    RetryCalled =>
        IF store.step_runs[1].status = "failed_retryable"
        THEN /\ store'.step_runs[1].status = "pending"
             /\ store'.step_runs[1].retry_count = store.step_runs[1].retry_count + 1
        ELSE /\ workers'[1].returned \in {"ValueError", "InvalidStateTransitionError"}
             /\ store'.step_runs[1].status = store.step_runs[1].status
             /\ store'.step_runs[1].retry_count = store.step_runs[1].retry_count

C26_RetryResets == [][C26_Step]_vars

(***************************************************************************)
(* C27.  Of the concurrent calls of check_and_insert_key with one          *)
(* key_hash, exactly one returns was_inserted = True and every other one   *)
(* was_inserted = False, and no idempotency key ever has more than one     *)
(* StepRun or more than one row in idempotency_keys.                       *)
(***************************************************************************)
CallsWith(key_hash, was_inserted) ==
    {w \in DOMAIN workers : /\ workers[w].key_hash = key_hash
                            /\ workers[w].was_inserted = was_inserted}

C27_ExactlyOneInserts ==
    pc = "idempotency_keys" =>
        \A key_hash \in KeyHashes :
            /\ Cardinality(CallsWith(key_hash, "True")) <= 1
            /\ CallsWith(key_hash, "False") # {}
                  => Cardinality(CallsWith(key_hash, "True")) = 1
            /\ Len(get_cached_result(store.idempotency_keys, key_hash)) > 0
                  => Cardinality(CallsWith(key_hash, "True")) = 1
            /\ Cardinality({i \in DOMAIN store.idempotency_keys :
                              store.idempotency_keys[i].key_hash = key_hash}) <= 1
            /\ Cardinality({i \in DOMAIN store.step_runs :
                              store.step_runs[i].idempotency_key = key_hash}) <= 1

C27_Witness ==
    /\ pc = "idempotency_keys"
    /\ \E a, b, c \in DOMAIN workers :
          /\ workers[a].key_hash = "k1" /\ workers[a].returned = "created"
          /\ workers[b].key_hash = "k1" /\ workers[b].returned = "duplicate"
          /\ workers[b].num_inserted = <<0>>
          /\ workers[c].key_hash = "k1" /\ workers[c].returned = "duplicate"
          /\ workers[c].num_inserted = <<>>

GateLeft == pc \in {"u_gated", "u_raised"} /\ "lines" \in DOMAIN input

C29_SameRowsAtGate ==
    GateLeft =>
        /\ raised = "none"
        /\ \A i \in DOMAIN result :
              \E again \in {ClusterTokensIntoLines(
                               TokensOf(result[i].token_ids, tokens))} :
                 /\ again.raised = "none"
                 /\ Len(again.lines) = result[i].hints.lines
                 /\ ~\E d \in DOMAIN decisions :
                        /\ decisions[d].decision = "reject"
                        /\ decisions[d].region_id = result[i].region_id

====
